---- MODULE Spec2Model ----
(***************************************************************************)
(* Vision / geometry pipeline of tooltrace: seeded flood fill, outline     *)
(* extraction and ordering, Douglas-Peucker simplification, Graham-scan    *)
(* convex hull, quadrilateral approximation and corner ordering, and the   *)
(* marching-squares walk.                                                  *)
(*                                                                         *)
(* Numbers.  Pixel coordinates are integers.  The code compares distances  *)
(* that it obtains with Math.sqrt; sqrt is monotone, so the model compares *)
(* the squares exactly, in integers.                                       *)
(* Math.atan2 angles are compared through the exact sign of cross and dot  *)
(* products.  The seed point is a real number in the code; the model       *)
(* keeps it in half pixels so that Math.floor has something to do.         *)
(***************************************************************************)
EXTENDS Integers, Sequences, FiniteSets, TLC

VARIABLES
    pc,            \* position of the modelled call
    width, height, \* ImageData / mask dimensions
    data,          \* ImageData.data: pixel index -> [r, g, b]
    startPoint,    \* floodFillTrace argument, in half pixels
    threshold,     \* floodFillTrace argument
    visited,       \* Uint8Array visited, as the set of indices holding 1
    queue,         \* number[] work list: x, y, x, y, ...
    regionPixels,  \* Point[] of accepted pixels
    iterations,    \* loop counter of the flood fill
    resolved,      \* the value the promise resolves with
    mask,          \* marchingSquares: set of indices holding 1
    msX, msY, msDir, \* marchingSquares: x, y, dir
    msVisited,     \* marchingSquares: Set<string> visited, as a set of points
    contour,       \* marchingSquares: Point[] contour
    steps,         \* marchingSquares: iterations of the do-while loop so far
    arg,           \* argument of a pure geometry function
    ret,           \* its return value
    samModel,      \* segmentation global: 0 for null, else the load that set it
    samProcessor,  \* segmentation global: 0 for null, else the load that set it
    isModelLoading,   \* segmentation global
    modelLoadPromise, \* segmentation global: 0 for null, else the load it stands for
    loads,         \* state of the promise of each model load started so far
    calls,         \* the asynchronous calls made by the application
    mode,          \* designer page state: mode
    paperCorners,  \* designer page state: paperCorners
    tools,         \* designer page state: tools
    clicks,        \* the runs of handleCanvasClick, each with the state it closed over
    deleted,       \* the traces whose tool the user has deleted
    exported,      \* what handleExport put out, when it is the step just taken
    now            \* Date.now()

vars == <<pc, width, height, data, startPoint, threshold, visited, queue,
          regionPixels, iterations, resolved, mask, msX, msY, msDir,
          msVisited, contour, steps, arg, ret, samModel, samProcessor,
          isModelLoading, modelLoadPromise, loads, calls, mode, paperCorners,
          tools, clicks, deleted, exported, now>>

fillVars == <<data, startPoint, threshold, visited, queue, regionPixels,
              iterations, resolved>>
msVars == <<mask, msX, msY, msDir, msVisited, contour, steps>>
pureVars == <<arg, ret>>
segVars == <<samModel, samProcessor, isModelLoading, modelLoadPromise, loads,
             calls>>
pageVars == <<mode, paperCorners, tools, clicks, deleted, exported, now>>

(***************************************************************************)
(* Geometry primitives                                                     *)
(***************************************************************************)
Point(px, py) == [x |-> px, y |-> py]

Abs(v) == IF v < 0 THEN -v ELSE v

Last(s) == s[Len(s)]

\* s.slice(0, -1)
ButLast(s) == SubSeq(s, 1, Len(s) - 1)

\* Sequence helpers.
Range(s) == {s[i] : i \in 1..Len(s)}

SeqsUpTo(S, lo, hi) == UNION {[1..n -> S] : n \in lo..hi}

SeqPermutations(s) ==
    {[i \in 1..Len(s) |-> s[f[i]]] :
        f \in {g \in [1..Len(s) -> 1..Len(s)] :
                  \A i, j \in 1..Len(s) : g[i] = g[j] => i = j}}

Rotations(s) ==
    {[i \in 1..Len(s) |-> s[((i + k - 1) % Len(s)) + 1]] : k \in 0..(Len(s) - 1)}

\* Squared Euclidean distance between two points.
Dist2(a, b) == (a.x - b.x) * (a.x - b.x) + (a.y - b.y) * (a.y - b.y)

\* n1/d1 > n2/d2 for n1, n2 >= 0 and d1, d2 > 0, by comparing the integer
\* parts and then the reciprocals of the fractional parts, so that no
\* product leaves the 32-bit range of the checker.
RECURSIVE RatioGT(_, _, _, _)
RatioGT(n1, d1, n2, d2) ==
    LET q1 == n1 \div d1
        q2 == n2 \div d2
        r1 == n1 % d1
        r2 == n2 % d2
    IN  IF q1 # q2 THEN q1 > q2
        ELSE IF r1 = 0 THEN FALSE
        ELSE IF r2 = 0 THEN TRUE
        ELSE RatioGT(d2, r2, d1, r1)

\* A distance to a chord.  With onLine the distance is a / sqrt(d), the
\* distance to the line through the chord's ends; otherwise the chord has
\* length zero and the distance is sqrt(a).  Distances to one chord are of
\* one kind and share d, so they compare as their a.
DistToLine(a, d) == [a |-> a, d |-> d, onLine |-> TRUE]
DistToPoint(a) == [a |-> a, d |-> 1, onLine |-> FALSE]
DistGT(p, q) == p.a > q.a

(***************************************************************************)
(* toolDetection.ts: Douglas-Peucker                                       *)
(***************************************************************************)
\* The square of the distance the code returns: the distance to the line
\* through lineStart and lineEnd (t is not clamped), or to lineStart when
\* the two coincide.
perpendicularDistance(point, lineStart, lineEnd) ==
    LET dx == lineEnd.x - lineStart.x
        dy == lineEnd.y - lineStart.y
        cr == (point.x - lineStart.x) * dy - (point.y - lineStart.y) * dx
    IN  IF dx = 0 /\ dy = 0
        THEN DistToPoint(Dist2(point, lineStart))
        ELSE DistToLine(Abs(cr), dx * dx + dy * dy)

\* The for loop of simplifyPolygon: i runs over the interior points
\* (1-based here), keeping the first point of maximum distance.
RECURSIVE farthest(_, _, _, _)
farthest(points, i, maxDist, maxIdx) ==
    IF i > Len(points) - 1
    THEN [maxDist |-> maxDist, maxIdx |-> maxIdx]
    ELSE LET dist == perpendicularDistance(points[i], points[1], Last(points))
         IN  IF DistGT(dist, maxDist)
             THEN farthest(points, i + 1, dist, i)
             ELSE farthest(points, i + 1, maxDist, maxIdx)

\* A variant that compares with twice the tolerance.
ExceedsTwiceTolerance(maxDist, tolerance) ==
    IF maxDist.onLine
    THEN maxDist.a > 0
         /\ RatioGT(maxDist.a, maxDist.d, 4 * tolerance * tolerance, maxDist.a)
    ELSE maxDist.a > 4 * tolerance * tolerance

\* maxDist > tolerance, on the squares (tolerance >= 0).
ExceedsTolerance(maxDist, tolerance) ==
    IF maxDist.onLine
    THEN maxDist.a > 0
         /\ RatioGT(maxDist.a, maxDist.d, tolerance * tolerance, maxDist.a)
    ELSE maxDist.a > tolerance * tolerance

\* A variant whose left half stops one short of the split point
\* (points.slice(0, maxIdx) for points.slice(0, maxIdx + 1)).
RECURSIVE simplifyPolygonShortSlice(_, _)
simplifyPolygonShortSlice(points, tolerance) ==
    IF Len(points) <= 2 THEN points
    ELSE LET m == farthest(points, 2, DistToPoint(0), 1)
         IN  IF ExceedsTolerance(m.maxDist, tolerance)
             THEN LET left == simplifyPolygonShortSlice(
                                  SubSeq(points, 1, m.maxIdx - 1), tolerance)
                      right == simplifyPolygonShortSlice(
                                  SubSeq(points, m.maxIdx, Len(points)), tolerance)
                  IN  ButLast(left) \o right
             ELSE <<points[1], Last(points)>>

RECURSIVE simplifyPolygon(_, _)
simplifyPolygon(points, tolerance) ==
    IF Len(points) <= 2 THEN points
    ELSE LET m == farthest(points, 2, DistToPoint(0), 1)
         IN  IF ExceedsTolerance(m.maxDist, tolerance)
             THEN LET left == simplifyPolygon(
                                  SubSeq(points, 1, m.maxIdx), tolerance)
                      right == simplifyPolygon(
                                  SubSeq(points, m.maxIdx, Len(points)), tolerance)
                  IN  ButLast(left) \o right
             ELSE <<points[1], Last(points)>>

(***************************************************************************)
(* toolDetection.ts: flood fill                                            *)
(***************************************************************************)
\* Bounds of the flood-fill model.
FillW == 3
FillH == 2
OutlineW == 4
OutlineH == 3
MaxOdd == 2

\* Math.trunc instead of Math.floor.
FloorTrunc(v) == IF v < 0 THEN -((-v) \div 2) ELSE v \div 2

\* Math.floor of a coordinate kept in half pixels.
Floor(v) == v \div 2

\* 4-way connectivity tables.
fillDx == <<1, -1, 0, 0>>
fillDy == <<0, 0, 1, -1>>

InImage(px, py, w, h) == px >= 0 /\ px < w /\ py >= 0 /\ py < h

\* The square of the colour distance of line 136.
ColorDist2(c, seedColor) ==
    (c.r - seedColor.r) * (c.r - seedColor.r)
    + (c.g - seedColor.g) * (c.g - seedColor.g)
    + (c.b - seedColor.b) * (c.b - seedColor.b)

\* dist <= threshold instead of dist < threshold.
acceptsInclusive(c, seedColor, thr) ==
    thr >= 0 /\ ColorDist2(c, seedColor) <= thr * thr

\* dist < threshold, dist being a square root (>= 0).
accepts(c, seedColor, thr) ==
    thr > 0 /\ ColorDist2(c, seedColor) < thr * thr

\* A variant that pushes an accepted neighbour without marking it visited.
RECURSIVE visitNeighboursUnmarked(_, _, _, _, _, _, _, _, _)
visitNeighboursUnmarked(i, cx, cy, st, w, h, img, seedColor, thr) ==
    IF i > 4 THEN st
    ELSE LET nx == cx + fillDx[i]
             ny == cy + fillDy[i]
             nIdx == ny * w + nx
             take == /\ InImage(nx, ny, w, h)
                     /\ nIdx \notin st.visited
                     /\ accepts(img[nIdx], seedColor, thr)
             st2 == IF take
                    THEN [visited |-> st.visited,
                          queue |-> st.queue \o <<nx, ny>>]
                    ELSE st
         IN  visitNeighboursUnmarked(i + 1, cx, cy, st2, w, h, img, seedColor,
                                     thr)

\* The for loop over the four neighbours of (cx, cy): st carries visited
\* and queue.
RECURSIVE visitNeighbours(_, _, _, _, _, _, _, _, _)
visitNeighbours(i, cx, cy, st, w, h, img, seedColor, thr) ==
    IF i > 4 THEN st
    ELSE LET nx == cx + fillDx[i]
             ny == cy + fillDy[i]
             nIdx == ny * w + nx
             take == /\ InImage(nx, ny, w, h)
                     /\ nIdx \notin st.visited
                     /\ accepts(img[nIdx], seedColor, thr)
             st2 == IF take
                    THEN [visited |-> st.visited \cup {nIdx},
                          queue |-> st.queue \o <<nx, ny>>]
                    ELSE st
         IN  visitNeighbours(i + 1, cx, cy, st2, w, h, img, seedColor, thr)

\* extractOutline's test of one pixel of the visited mask.
isEdgePixel(px, py, vis, w, h) ==
    \E d \in 1..4 :
        LET nx == px + fillDx[d]
            ny == py + fillDy[d]
        IN  \/ ~InImage(nx, ny, w, h)
            \/ (ny * w + nx) \notin vis

\* The raster scan of extractOutline, from pixel index idx on.
RECURSIVE outlineScan(_, _, _, _)
outlineScan(idx, vis, w, h) ==
    IF idx >= w * h THEN <<>>
    ELSE LET px == idx % w
             py == idx \div w
             rest == outlineScan(idx + 1, vis, w, h)
         IN  IF idx \in vis /\ isEdgePixel(px, py, vis, w, h)
             THEN <<Point(px, py)>> \o rest
             ELSE rest

\* A variant that still appends a point at squared distance exactly 100.
RECURSIVE orderLoopInclusive(_, _, _)
orderLoopInclusive(points, ordered, remaining) ==
    IF remaining = {} THEN ordered
    ELSE LET current == Last(ordered)
             nearest == CHOOSE i \in remaining :
                          \A j \in remaining :
                             \/ Dist2(points[i], current) < Dist2(points[j], current)
                             \/ /\ Dist2(points[i], current) = Dist2(points[j], current)
                                /\ i <= j
         IN  IF Dist2(points[nearest], current) <= 100
             THEN orderLoopInclusive(points, Append(ordered, points[nearest]),
                                     remaining \ {nearest})
             ELSE ordered

\* The while loop of orderOutlinePoints.  The Set is iterated in insertion
\* order (ascending index) and a candidate replaces the nearest only when
\* strictly nearer, so the nearest is the lowest index of minimum distance.
RECURSIVE orderLoop(_, _, _)
orderLoop(points, ordered, remaining) ==
    IF remaining = {} THEN ordered
    ELSE LET current == Last(ordered)
             nearest == CHOOSE i \in remaining :
                          \A j \in remaining :
                             \/ Dist2(points[i], current) < Dist2(points[j], current)
                             \/ /\ Dist2(points[i], current) = Dist2(points[j], current)
                                /\ i <= j
         IN  IF Dist2(points[nearest], current) < 100
             THEN orderLoop(points, Append(ordered, points[nearest]),
                            remaining \ {nearest})
             ELSE ordered

orderOutlinePoints(points) ==
    IF Len(points) < 3 THEN points
    ELSE orderLoop(points, <<points[1]>>, 2..Len(points))

extractOutline(vis, w, h) ==
    LET outline == outlineScan(0, vis, w, h)
    IN  IF Len(outline) < 3 THEN outline ELSE orderOutlinePoints(outline)

boxSize == 50

\* Lines 151-167: what the promise resolves with once the loop has ended.
fillResult(region, vis, w, h, sx, sy) ==
    LET outline == extractOutline(vis, w, h)
    IN  IF Len(region) > 10 /\ Len(outline) > 2
        THEN simplifyPolygon(outline, 2)
        ELSE << Point(sx - boxSize, sy - boxSize),
                Point(sx + boxSize, sy - boxSize),
                Point(sx + boxSize, sy + boxSize),
                Point(sx - boxSize, sy + boxSize) >>

\* Two colours at distance exactly 30 and two thresholds around it.
Colors == << [r |-> 0, g |-> 0, b |-> 0], [r |-> 18, g |-> 24, b |-> 0] >>
Thresholds == {30, 31}

\* Images: every pixel has colour 1, but for at most MaxOdd pixels of colour 2.
Images(w, h) ==
    { [i \in 0..(w * h - 1) |->
          IF \E k \in 1..MaxOdd : f[k] = i THEN Colors[2] ELSE Colors[1]] :
      f \in [1..MaxOdd -> -1..(w * h - 1)] }

\* Seeds at -0.5, 0.5, 1.5, ..., and at the first coordinate past the buffer.
SeedCoords(n) == {-1} \cup {2 * i + 1 : i \in 0..(n - 1)} \cup {2 * n}

\* const sx, sy of floodFillTrace
sx == Floor(startPoint.x)
sy == Floor(startPoint.y)

IdleFill ==
    /\ data = <<>> /\ startPoint = Point(0, 0) /\ threshold = 0
    /\ visited = {} /\ queue = <<>> /\ regionPixels = <<>>
    /\ iterations = 0 /\ resolved = <<>>
IdleMS ==
    /\ mask = {} /\ msX = 0 /\ msY = 0 /\ msDir = 0 /\ msVisited = {}
    /\ contour = <<>> /\ steps = 0
IdlePure == arg = <<>> /\ ret = <<>>
IdleSeg ==
    /\ samModel = 0 /\ samProcessor = 0 /\ isModelLoading = FALSE
    /\ modelLoadPromise = 0 /\ loads = <<>> /\ calls = <<>>

\* The designer page is not mounted.
IdlePage ==
    /\ mode = "view" /\ paperCorners = <<>> /\ tools = <<>> /\ clicks = <<>>
    /\ deleted = {} /\ exported = "none" /\ now = 0

\* floodFillTrace(imageData, startPoint, threshold) on a w x h buffer.
InitFillOn(w, h) ==
    /\ pc = "start"
    /\ width = w /\ height = h
    /\ data \in Images(w, h)
    /\ startPoint \in {Point(a, b) : a \in SeedCoords(w), b \in SeedCoords(h)}
    /\ threshold \in Thresholds
    /\ visited = {} /\ queue = <<>> /\ regionPixels = <<>>
    /\ iterations = 0 /\ resolved = <<>>
    /\ IdleMS /\ IdlePure /\ IdleSeg /\ IdlePage

InitFill == InitFillOn(FillW, FillH)

\* Buffers of more than 10 pixels, where a region can pass the size test of
\* line 152 and its outline is extracted and simplified.
InitFillOutline == InitFillOn(OutlineW, OutlineH)

\* Lines 86-107, seed outside the buffer: resolve([]).
FillOutside ==
    /\ pc = "start"
    /\ (sx < 0 \/ sx >= width \/ sy < 0 \/ sy >= height)
    /\ resolved' = <<>>
    /\ pc' = "done"
    /\ UNCHANGED <<width, height, data, startPoint, threshold, visited, queue,
                   regionPixels, iterations>>
    /\ UNCHANGED msVars /\ UNCHANGED pureVars /\ UNCHANGED segVars /\ UNCHANGED pageVars

\* Lines 86-107, seed inside: push the seed and mark it visited.
FillSeed ==
    /\ pc = "start"
    /\ ~(sx < 0 \/ sx >= width \/ sy < 0 \/ sy >= height)
    /\ queue' = <<sx, sy>>
    /\ visited' = {sy * width + sx}
    /\ pc' = "loop"
    /\ UNCHANGED <<width, height, data, startPoint, threshold, regionPixels,
                   iterations, resolved>>
    /\ UNCHANGED msVars /\ UNCHANGED pureVars /\ UNCHANGED segVars /\ UNCHANGED pageVars

\* Lines 117-149: one iteration of the while loop.
FillStep ==
    /\ pc = "loop"
    /\ Len(queue) > 0 /\ iterations < width * height
    /\ LET cy == queue[Len(queue)]
           cx == queue[Len(queue) - 1]
           popped == SubSeq(queue, 1, Len(queue) - 2)
           seedColor == data[sy * width + sx]
           st == visitNeighbours(1, cx, cy,
                     [visited |-> visited, queue |-> popped],
                     width, height, data, seedColor, threshold)
       IN  /\ iterations' = iterations + 1
           /\ regionPixels' = Append(regionPixels, Point(cx, cy))
           /\ visited' = st.visited
           /\ queue' = st.queue
    /\ UNCHANGED <<pc, width, height, data, startPoint, threshold, resolved>>
    /\ UNCHANGED msVars /\ UNCHANGED pureVars /\ UNCHANGED segVars /\ UNCHANGED pageVars

\* Lines 151-167: the loop has ended; resolve with the outline or the box.
FillFinish ==
    /\ pc = "loop"
    /\ ~(Len(queue) > 0 /\ iterations < width * height)
    /\ resolved' = fillResult(regionPixels, visited, width, height, sx, sy)
    /\ pc' = "done"
    /\ UNCHANGED <<width, height, data, startPoint, threshold, visited, queue,
                   regionPixels, iterations>>
    /\ UNCHANGED msVars /\ UNCHANGED pureVars /\ UNCHANGED segVars /\ UNCHANGED pageVars

NextFill == FillOutside \/ FillSeed \/ FillStep \/ FillFinish

SpecFill == InitFill /\ [][NextFill]_vars

SpecFillOutline == InitFillOutline /\ [][NextFill]_vars

\* The promise executor of floodFillTrace is synchronous code: while a step
\* of it is possible, a step is taken.
FairFillW == 2
FairFillH == 2

InitFairFill == InitFillOn(FairFillW, FairFillH)

FairSpecFill == InitFairFill /\ [][NextFill]_vars /\ WF_vars(NextFill)

(***************************************************************************)
(* SpecFillAnyOrder: the flood fill with the pending pixel of each         *)
(* iteration taken from any place of the work list.  The code takes the    *)
(* last one (queue.pop(), FillStep); FillStepAt(k) with k the last pair is *)
(* that step.                                                              *)
(***************************************************************************)
\* A variant of the cap that stops the loop after half the buffer.
maxIterationsHalf(w, h) == (w * h + 1) \div 2

\* Line 115: const maxIterations = width * height
maxIterations(w, h) == w * h

\* Lines 117-149 for one pixel (cx, cy) taken off the list, rest the list
\* without it: st carries queue, visited, regionPixels, iterations.
fillIteration(cx, cy, rest, st, w, h, img, seedColor, thr) ==
    LET nb == visitNeighbours(1, cx, cy,
                  [visited |-> st.visited, queue |-> rest],
                  w, h, img, seedColor, thr)
    IN  [queue |-> nb.queue, visited |-> nb.visited,
         regionPixels |-> Append(st.regionPixels, Point(cx, cy)),
         iterations |-> st.iterations + 1]

\* The while loop as the code runs it, taking the last pair each time.
RECURSIVE fillLoop(_, _, _, _, _, _)
fillLoop(st, w, h, img, seedColor, thr) ==
    IF Len(st.queue) > 0 /\ st.iterations < maxIterations(w, h)
    THEN fillLoop(fillIteration(st.queue[Len(st.queue) - 1],
                                st.queue[Len(st.queue)],
                                SubSeq(st.queue, 1, Len(st.queue) - 2),
                                st, w, h, img, seedColor, thr),
                  w, h, img, seedColor, thr)
    ELSE st

\* The loop from lines 106-107 on, for a seed (px, py) inside the buffer.
fillFrom(px, py, w, h, img, thr) ==
    fillLoop([queue |-> <<px, py>>, visited |-> {py * w + px},
              regionPixels |-> << >>, iterations |-> 0],
             w, h, img, img[py * w + px], thr)

\* One iteration that takes the k-th pending pixel.
FillStepAt(k) ==
    /\ pc = "loop"
    /\ Len(queue) > 0 /\ iterations < maxIterations(width, height)
    /\ k \in 1..(Len(queue) \div 2)
    /\ LET st == fillIteration(queue[2 * k - 1], queue[2 * k],
                     SubSeq(queue, 1, 2 * k - 2)
                         \o SubSeq(queue, 2 * k + 1, Len(queue)),
                     [queue |-> queue, visited |-> visited,
                      regionPixels |-> regionPixels,
                      iterations |-> iterations],
                     width, height, data, data[sy * width + sx], threshold)
       IN  /\ iterations' = st.iterations
           /\ regionPixels' = st.regionPixels
           /\ visited' = st.visited
           /\ queue' = st.queue
    /\ UNCHANGED <<pc, width, height, data, startPoint, threshold, resolved>>
    /\ UNCHANGED msVars /\ UNCHANGED pureVars /\ UNCHANGED segVars /\ UNCHANGED pageVars

\* Lines 151-167 once the loop has ended.
FillFinishAnyOrder ==
    /\ pc = "loop"
    /\ ~(Len(queue) > 0 /\ iterations < maxIterations(width, height))
    /\ resolved' = fillResult(regionPixels, visited, width, height, sx, sy)
    /\ pc' = "done"
    /\ UNCHANGED <<width, height, data, startPoint, threshold, visited, queue,
                   regionPixels, iterations>>
    /\ UNCHANGED msVars /\ UNCHANGED pureVars /\ UNCHANGED segVars /\ UNCHANGED pageVars

NextFillAnyOrder ==
    \/ FillOutside
    \/ FillSeed
    \/ \E k \in 1..(FillW * FillH) : FillStepAt(k)
    \/ FillFinishAnyOrder

SpecFillAnyOrder == InitFill /\ [][NextFillAnyOrder]_vars

(***************************************************************************)
(* Array.prototype.sort and Math.atan2                                     *)
(***************************************************************************)
\* Array.prototype.sort is stable.  Before(a, b) stands for "the comparator
\* returns a negative number for (a, b)"; an element is inserted behind
\* every element it does not come before.
RECURSIVE insertPos(_, _, _, _)
insertPos(Before(_, _), s, e, k) ==
    IF k > 0 /\ Before(e, s[k]) THEN insertPos(Before, s, e, k - 1) ELSE k

RECURSIVE sortFrom(_, _, _, _)
sortFrom(Before(_, _), s, i, acc) ==
    IF i > Len(s) THEN acc
    ELSE LET k == insertPos(Before, acc, s[i], Len(acc))
         IN  sortFrom(Before, s, i + 1,
                      SubSeq(acc, 1, k) \o <<s[i]>> \o SubSeq(acc, k + 1, Len(acc)))

StableSort(Before(_, _), s) == sortFrom(Before, s, 1, <<>>)

\* Math.atan2(v.y, v.x) lies in (-pi, pi]; atan2(0, 0) is 0.  Sector 0 is
\* (-pi, 0), sector 1 is {0}, sector 2 is (0, pi), sector 3 is {pi}.
Sector(v) ==
    IF v.y < 0 THEN 0
    ELSE IF v.y > 0 THEN 2
    ELSE IF v.x >= 0 THEN 1 ELSE 3

Cross2(a, b) == a.x * b.y - a.y * b.x
Dot2(a, b) == a.x * b.x + a.y * b.y

\* atan2(a) < atan2(b), exactly.
AngleLess(a, b) ==
    \/ Sector(a) < Sector(b)
    \/ /\ Sector(a) = Sector(b)
       /\ Sector(a) \in {0, 2}
       /\ Cross2(a, b) > 0

\* The direction whose angle atan2 reports.
DirOf(v) == IF v.x = 0 /\ v.y = 0 THEN Point(1, 0) ELSE v

\* |atan2(a) - atan2(b)| < 0.0001.  The difference of two angles that do
\* not straddle the cut at pi is below 0.0001 exactly when
\* tan = |cross| / dot < tan(0.0001), which for integer vectors with
\* dot < 3 * 10^8 is |cross| * 10000 <= dot.
AngleClose(a, b) ==
    LET da == DirOf(a)
        db == DirOf(b)
        straddle == /\ da.x < 0 /\ db.x < 0
                    /\ (Sector(da) = 0) # (Sector(db) = 0)
    IN  /\ Dot2(da, db) > 0
        /\ ~RatioGT(Abs(Cross2(da, db)), Dot2(da, db), 1, 10000)
        /\ ~straddle

Minus(a, b) == Point(a.x - b.x, a.y - b.y)

\* points.filter((_, i) => i % step === 0) over the 1-based positions
\* lo..hi: the elements whose 0-based index is a multiple of step, in
\* order.  The range is halved so that lists of some thousand points can
\* be filtered.
RECURSIVE filterStride(_, _, _, _)
filterStride(points, step, lo, hi) ==
    IF lo > hi THEN <<>>
    ELSE IF lo = hi
         THEN IF (lo - 1) % step = 0 THEN <<points[lo]>> ELSE <<>>
         ELSE LET mid == (lo + hi) \div 2
              IN  filterStride(points, step, lo, mid)
                     \o filterStride(points, step, mid + 1, hi)

\* "Sample points for performance".
sampleEvery(points, limit) ==
    IF Len(points) > limit
    THEN filterStride(points, Len(points) \div limit, 1, Len(points))
    ELSE points

\* Index of the pivot: the loop replaces lowest only by a point of larger y,
\* or of equal y and smaller x, so the first such point in array order wins.
RECURSIVE lowestIdx(_, _, _)
lowestIdx(points, i, best) ==
    IF i > Len(points) THEN best
    ELSE IF \/ points[i].y > points[best].y
            \/ (points[i].y = points[best].y /\ points[i].x < points[best].x)
         THEN lowestIdx(points, i + 1, i)
         ELSE lowestIdx(points, i + 1, best)

\* cross(o, a, b)
cross(o, a, b) == (a.x - o.x) * (b.y - o.y) - (a.y - o.y) * (b.x - o.x)

\* while (hull.length > 1 && cross(...) <= 0) hull.pop()
RECURSIVE popHull(_, _)
popHull(hull, p) ==
    IF Len(hull) > 1 /\ cross(hull[Len(hull) - 1], Last(hull), p) <= 0
    THEN popHull(ButLast(hull), p)
    ELSE hull

\* for (const p of sorted) { pop...; hull.push(p) }
RECURSIVE grahamScan(_, _, _)
grahamScan(sorted, i, hull) ==
    IF i > Len(sorted) THEN hull
    ELSE grahamScan(sorted, i + 1, Append(popHull(hull, sorted[i]), sorted[i]))

RECURSIVE filterSeq(_, _, _)
filterSeq(Keep(_), s, i) ==
    IF i > Len(s) THEN <<>>
    ELSE IF Keep(i) THEN <<s[i]>> \o filterSeq(Keep, s, i + 1)
         ELSE filterSeq(Keep, s, i + 1)

(***************************************************************************)
(* paperDetection: convexHull                                              *)
(***************************************************************************)
paperSampleLimit == 2000

\* The sort comparator of the paper-detection hull is negative.
paperAngleBefore(a, b, lowest) ==
    LET va == Minus(a, lowest)
        vb == Minus(b, lowest)
    IN  IF AngleClose(va, vb)
        THEN Dist2(a, lowest) < Dist2(b, lowest)
        ELSE AngleLess(va, vb)

convexHullPaper(points) ==
    IF Len(points) < 3 THEN points
    ELSE LET sampled == sampleEvery(points, paperSampleLimit)
             lowest == sampled[lowestIdx(sampled, 1, 1)]
             rest == filterSeq(LAMBDA i : sampled[i].x # lowest.x
                                          \/ sampled[i].y # lowest.y,
                               sampled, 1)
             sorted == StableSort(LAMBDA a, b : paperAngleBefore(a, b, lowest), rest)
         IN  grahamScan(sorted, 1, <<lowest>>)

(***************************************************************************)
(* segmentation: convexHull                                                *)
(***************************************************************************)
segSampleLimit == 1000

\* The comparator is angleA - angleB, with no tie-break.
segAngleBefore(a, b, lowest) == AngleLess(Minus(a, lowest), Minus(b, lowest))

\* filter(p => p !== lowest) compares references: it drops the one array
\* element that is the pivot object and keeps other points of equal
\* coordinates.
convexHullSeg(points) ==
    IF Len(points) < 3 THEN points
    ELSE LET sampled == sampleEvery(points, segSampleLimit)
             li == lowestIdx(sampled, 1, 1)
             lowest == sampled[li]
             rest == filterSeq(LAMBDA i : i # li, sampled, 1)
             sorted == StableSort(LAMBDA a, b : segAngleBefore(a, b, lowest), rest)
         IN  grahamScan(sorted, 1, <<lowest>>)

(***************************************************************************)
(* paperDetection: douglasPeucker, pickExtremePoints, reorderCorners,      *)
(* approximateQuadrilateral                                                *)
(***************************************************************************)
perpendicularDistancePaper(point, lineStart, lineEnd) ==
    LET dx == lineEnd.x - lineStart.x
        dy == lineEnd.y - lineStart.y
        cr == (point.x - lineStart.x) * dy - (point.y - lineStart.y) * dx
    IN  IF dx = 0 /\ dy = 0
        THEN DistToPoint(Dist2(point, lineStart))
        ELSE DistToLine(Abs(cr), dx * dx + dy * dy)

RECURSIVE farthestPaper(_, _, _, _)
farthestPaper(points, i, maxDist, maxIdx) ==
    IF i > Len(points) - 1
    THEN [maxDist |-> maxDist, maxIdx |-> maxIdx]
    ELSE LET dist == perpendicularDistancePaper(points[i], points[1], Last(points))
         IN  IF DistGT(dist, maxDist)
             THEN farthestPaper(points, i + 1, dist, i)
             ELSE farthestPaper(points, i + 1, maxDist, maxIdx)

RECURSIVE douglasPeucker(_, _)
douglasPeucker(points, epsilon) ==
    IF Len(points) <= 2 THEN points
    ELSE LET m == farthestPaper(points, 2, DistToPoint(0), 1)
         IN  IF ExceedsTolerance(m.maxDist, epsilon)
             THEN LET left == douglasPeucker(SubSeq(points, 1, m.maxIdx), epsilon)
                      right == douglasPeucker(
                                  SubSeq(points, m.maxIdx, Len(points)), epsilon)
                  IN  ButLast(left) \o right
             ELSE <<points[1], Last(points)>>

\* The first loop of pickExtremePoints: a later point replaces an extreme
\* only when strictly beyond it.
RECURSIVE extremes(_, _, _)
extremes(points, i, e) ==
    IF i > Len(points) THEN e
    ELSE LET p == points[i]
         IN  extremes(points, i + 1,
                 [minX |-> IF p.x < e.minX.x THEN p ELSE e.minX,
                  maxX |-> IF p.x > e.maxX.x THEN p ELSE e.maxX,
                  minY |-> IF p.y < e.minY.y THEN p ELSE e.minY,
                  maxY |-> IF p.y > e.maxY.y THEN p ELSE e.maxY])

\* "Return unique points".  The key is `${Math.round(x)},${Math.round(y)}`;
\* pixel coordinates are integers, so two points share a key exactly when
\* they are equal.
RECURSIVE uniquePoints(_, _, _)
uniquePoints(cands, i, result) ==
    IF i > Len(cands) THEN result
    ELSE IF cands[i] \in {result[k] : k \in 1..Len(result)}
         THEN uniquePoints(cands, i + 1, result)
         ELSE uniquePoints(cands, i + 1, Append(result, cands[i]))

\* Squared distance from p to the nearest point of result.
minDistToExisting(p, result) ==
    LET ds == {Dist2(p, result[k]) : k \in 1..Len(result)}
    IN  CHOOSE d \in ds : \A e \in ds : d <= e

\* The inner for loop of the while loop: the first unseen point that
\* maximises the distance to the chosen ones, 0 when there is none
\* (maxDist starts at 0 and is replaced only by a strictly larger value).
farthestUnseen(points, result) ==
    LET seenKeys == {result[k] : k \in 1..Len(result)}
        cand == {i \in 1..Len(points) :
                    /\ points[i] \notin seenKeys
                    /\ minDistToExisting(points[i], result) > 0}
    IN  IF cand = {} THEN 0
        ELSE CHOOSE i \in cand :
                \A j \in cand :
                   \/ minDistToExisting(points[i], result)
                        > minDistToExisting(points[j], result)
                   \/ /\ minDistToExisting(points[i], result)
                           = minDistToExisting(points[j], result)
                      /\ i <= j

RECURSIVE addFarthest(_, _)
addFarthest(points, result) ==
    IF Len(result) < 4 /\ Len(points) > Len(result)
    THEN LET f == farthestUnseen(points, result)
         IN  IF f = 0 THEN result
             ELSE addFarthest(points, Append(result, points[f]))
    ELSE result

pickExtremePoints(points) ==
    LET e == extremes(points, 1,
                 [minX |-> points[1], maxX |-> points[1],
                  minY |-> points[1], maxY |-> points[1]])
        result == uniquePoints(<<e.minX, e.maxX, e.minY, e.maxY>>, 1, <<>>)
    IN  addFarthest(points, result)

\* corners.reduce((s, p) => s + p.x, 0)
RECURSIVE sumBy(_, _, _)
sumBy(F(_), s, i) == IF i > Len(s) THEN 0 ELSE F(s[i]) + sumBy(F, s, i + 1)

\* The vector from the centre (cx, cy) to p, times 4: the centre is
\* sum / 4, and scaling changes no angle.
fromCentre(p, corners) ==
    Point(4 * p.x - sumBy(LAMBDA q : q.x, corners, 1),
          4 * p.y - sumBy(LAMBDA q : q.y, corners, 1))

\* "Find top-left (smallest x + y)": the first index of minimum sum.
RECURSIVE topLeftIdx(_, _, _)
topLeftIdx(sorted, i, tlIdx) ==
    IF i > 4 THEN tlIdx
    ELSE IF sorted[i].x + sorted[i].y < sorted[tlIdx].x + sorted[tlIdx].y
         THEN topLeftIdx(sorted, i + 1, i)
         ELSE topLeftIdx(sorted, i + 1, tlIdx)

\* A variant that starts from the point of largest x + y.
reorderCornersFromMax(corners) ==
    IF Len(corners) # 4 THEN corners
    ELSE LET sorted == StableSort(
                 LAMBDA a, b : AngleLess(fromCentre(a, corners),
                                         fromCentre(b, corners)), corners)
             tl == CHOOSE i \in 1..4 :
                     \A j \in 1..4 : sorted[i].x + sorted[i].y
                                       >= sorted[j].x + sorted[j].y
         IN  [i \in 1..4 |-> sorted[((tl - 1 + i - 1) % 4) + 1]]

\* A variant that looks for the smallest x + y in the list as given, not in
\* the list sorted by angle.
reorderCornersUnsortedIdx(corners) ==
    IF Len(corners) # 4 THEN corners
    ELSE LET sorted == StableSort(
                 LAMBDA a, b : AngleLess(fromCentre(a, corners),
                                         fromCentre(b, corners)), corners)
             tlIdx == topLeftIdx(corners, 2, 1)
         IN  [i \in 1..4 |-> sorted[((tlIdx - 1 + i - 1) % 4) + 1]]

reorderCorners(corners) ==
    IF Len(corners) # 4 THEN corners
    ELSE LET sorted == StableSort(
                 LAMBDA a, b : AngleLess(fromCentre(a, corners),
                                         fromCentre(b, corners)), corners)
             tlIdx == topLeftIdx(sorted, 2, 1)
         IN  [i \in 1..4 |-> sorted[((tlIdx - 1 + i - 1) % 4) + 1]]

\* while (simplified.length > 4 && tolerance < 100)
RECURSIVE escalate(_, _, _)
escalate(hull, simplified, tolerance) ==
    IF Len(simplified) > 4 /\ tolerance < 100
    THEN escalate(hull, douglasPeucker(hull, tolerance), tolerance + 5)
    ELSE simplified

approximateQuadrilateral(hull) ==
    IF Len(hull) <= 4 THEN reorderCorners(hull)
    ELSE LET simplified == escalate(hull, hull, 5)
         IN  reorderCorners(IF Len(simplified) > 4
                            THEN pickExtremePoints(simplified)
                            ELSE simplified)

findQuadrilateralCorners(outline) ==
    IF Len(outline) < 4 THEN outline
    ELSE approximateQuadrilateral(convexHullPaper(outline))

\* detectPaperWithAI once segmentAtPoint has resolved with this outline.
null == "null"
detectPaperWithAI(outline) ==
    IF Len(outline) < 4 THEN null ELSE findQuadrilateralCorners(outline)

(***************************************************************************)
(* segmentation: simplifyContour                                           *)
(***************************************************************************)
perpendicularDistanceSeg(point, lineStart, lineEnd) ==
    LET dx == lineEnd.x - lineStart.x
        dy == lineEnd.y - lineStart.y
        cr == (point.x - lineStart.x) * dy - (point.y - lineStart.y) * dx
    IN  IF dx = 0 /\ dy = 0
        THEN DistToPoint(Dist2(point, lineStart))
        ELSE DistToLine(Abs(cr), dx * dx + dy * dy)

RECURSIVE farthestSeg(_, _, _, _)
farthestSeg(points, i, maxDist, maxIdx) ==
    IF i > Len(points) - 1
    THEN [maxDist |-> maxDist, maxIdx |-> maxIdx]
    ELSE LET dist == perpendicularDistanceSeg(points[i], points[1], Last(points))
         IN  IF DistGT(dist, maxDist)
             THEN farthestSeg(points, i + 1, dist, i)
             ELSE farthestSeg(points, i + 1, maxDist, maxIdx)

RECURSIVE simplifyContour(_, _)
simplifyContour(points, tolerance) ==
    IF Len(points) <= 2 THEN points
    ELSE LET m == farthestSeg(points, 2, DistToPoint(0), 1)
         IN  IF ExceedsTolerance(m.maxDist, tolerance)
             THEN LET left == simplifyContour(SubSeq(points, 1, m.maxIdx), tolerance)
                      right == simplifyContour(
                                  SubSeq(points, m.maxIdx, Len(points)), tolerance)
                  IN  ButLast(left) \o right
             ELSE <<points[1], Last(points)>>

(***************************************************************************)
(* segmentation: marchingSquares                                           *)
(***************************************************************************)
MSW == 3
MSH == 3

\* Direction tables: right, down, left, up (0-based dir, 1-based tuples).
msDx == <<1, 0, -1, 0>>
msDy == <<0, 1, 0, -1>>

\* A variant that starts on the last foreground index.
startIdxLast(m) == IF m = {} THEN -1 ELSE CHOOSE i \in m : \A j \in m : i >= j

\* "Find starting point": the first foreground index in raster order, or -1.
startIdx(m) == IF m = {} THEN -1 ELSE CHOOSE i \in m : \A j \in m : i <= j

\* A variant that takes no pixel for an edge pixel.
msIsEdgeNever(px, py, m, w, h) == FALSE

\* Lines 330-338: the pixel has a background or out-of-bounds neighbour.
msIsEdge(px, py, m, w, h) ==
    \E d \in 1..4 :
        LET ex == px + msDx[d]
            ey == py + msDy[d]
        IN  \/ ~InImage(ex, ey, w, h)
            \/ (ey * w + ex) \notin m

\* turnOrder: turn right, go straight, turn left, go back.
turnOrder(d) == <<(d + 3) % 4, d, (d + 1) % 4, (d + 2) % 4>>

\* Whether the walk may step from (px, py) in direction nd.
msCanMove(px, py, nd, m, w, h, vis) ==
    LET nx == px + msDx[nd + 1]
        ny == py + msDy[nd + 1]
    IN  /\ InImage(nx, ny, w, h)
        /\ (ny * w + nx) \in m
        /\ (msIsEdge(nx, ny, m, w, h) \/ Point(nx, ny) \notin vis)

\* The for loop over turnOrder: the first direction that can be taken, -1
\* when there is none.
RECURSIVE firstMove(_, _, _, _, _, _, _, _)
firstMove(k, order, px, py, m, w, h, vis) ==
    IF k > 4 THEN -1
    ELSE IF msCanMove(px, py, order[k], m, w, h, vis) THEN order[k]
         ELSE firstMove(k + 1, order, px, py, m, w, h, vis)

\* The walk counter stops counting here.
StepCap(w, h) == 2 * w * h

InitMS ==
    /\ pc = "start"
    /\ width = MSW /\ height = MSH
    /\ mask \in SUBSET (0..(MSW * MSH - 1))
    /\ msX = 0 /\ msY = 0 /\ msDir = 0 /\ msVisited = {}
    /\ contour = <<>> /\ steps = 0
    /\ IdleFill /\ IdlePure /\ IdleSeg /\ IdlePage

\* Lines 288-300, no foreground pixel: return the empty contour.
MSEmpty ==
    /\ pc = "start"
    /\ startIdx(mask) = -1
    /\ pc' = "done"
    /\ UNCHANGED <<width, height>>
    /\ UNCHANGED msVars /\ UNCHANGED fillVars /\ UNCHANGED pureVars /\ UNCHANGED segVars /\ UNCHANGED pageVars

\* Lines 288-309: the walk starts on the first foreground pixel, heading right.
MSBegin ==
    /\ pc = "start"
    /\ startIdx(mask) # -1
    /\ msX' = startIdx(mask) % width
    /\ msY' = startIdx(mask) \div width
    /\ msDir' = 0
    /\ pc' = "walk"
    /\ UNCHANGED <<width, height, mask, msVisited, contour, steps>>
    /\ UNCHANGED fillVars /\ UNCHANGED pureVars /\ UNCHANGED segVars /\ UNCHANGED pageVars

\* Lines 311-353: one iteration of the do-while loop.
MSStep ==
    /\ pc = "walk"
    /\ LET here == Point(msX, msY)
           fresh == here \notin msVisited
           contour2 == IF fresh THEN Append(contour, here) ELSE contour
           visited2 == IF fresh THEN msVisited \cup {here} ELSE msVisited
           newDir == firstMove(1, turnOrder(msDir), msX, msY, mask,
                               width, height, visited2)
           nx == msX + msDx[newDir + 1]
           ny == msY + msDy[newDir + 1]
           atStart == nx = startIdx(mask) % width /\ ny = startIdx(mask) \div width
       IN  /\ contour' = contour2
           /\ msVisited' = visited2
           /\ steps' = IF steps < StepCap(width, height) THEN steps + 1 ELSE steps
           /\ IF newDir = -1
              THEN /\ pc' = "done"
                   /\ UNCHANGED <<msX, msY, msDir>>
              ELSE /\ msX' = nx /\ msY' = ny /\ msDir' = newDir
                   /\ pc' = IF ~atStart /\ Len(contour2) < width * height
                            THEN "walk" ELSE "done"
    /\ UNCHANGED <<width, height, mask>>
    /\ UNCHANGED fillVars /\ UNCHANGED pureVars /\ UNCHANGED segVars /\ UNCHANGED pageVars

NextMS == MSEmpty \/ MSBegin \/ MSStep

SpecMS == InitMS /\ [][NextMS]_vars

\* The loop is synchronous code: an enabled iteration is always taken.
FairSpecMS == SpecMS /\ WF_vars(NextMS)

\* marchingSquares as one call: the do-while loop of lines 311-353 from the
\* state (x, y, dir, visited, contour).
RECURSIVE msWalk(_, _, _, _, _, _, _, _)
msWalk(x, y, dir, vis, cont, m, w, h) ==
    LET here == Point(x, y)
        fresh == here \notin vis
        contour2 == IF fresh THEN Append(cont, here) ELSE cont
        visited2 == IF fresh THEN vis \cup {here} ELSE vis
        newDir == firstMove(1, turnOrder(dir), x, y, m, w, h, visited2)
        nx == x + msDx[newDir + 1]
        ny == y + msDy[newDir + 1]
    IN  IF newDir = -1 THEN contour2
        ELSE IF ~(nx = startIdx(m) % w /\ ny = startIdx(m) \div w)
                /\ Len(contour2) < w * h
             THEN msWalk(nx, ny, newDir, visited2, contour2, m, w, h)
             ELSE contour2

marchingSquares(m, w, h) ==
    IF startIdx(m) = -1 THEN <<>>
    ELSE msWalk(startIdx(m) % w, startIdx(m) \div w, 0, {}, <<>>, m, w, h)

\* Lines 276-279 of extractOutlineFromMask, on the binary mask.
extractOutlineFromMask(m, w, h) == simplifyContour(marchingSquares(m, w, h), 2)

(***************************************************************************)
(* SpecOutline: extractOutlineFromMask on uniform mask images              *)
(***************************************************************************)
RectMax == 4

\* Red values on both sides of the cut of line 272.
MaskReds == {0, 127, 128, 255}

\* A variant that cuts at >= 127.
binariseInclusive(v) == IF v >= 127 THEN 1 ELSE 0

\* Line 272: data[i * 4] > 127 ? 1 : 0
binarise(v) == IF v > 127 THEN 1 ELSE 0

\* extractOutlineFromMask(mask) on a w x h ImageData whose pixels all have
\* the same red value.
InitOutline ==
    /\ pc = "image"
    /\ width \in 0..RectMax /\ height \in 0..RectMax
    /\ \E v \in MaskReds :
          data = [i \in 0..(width * height - 1) |-> [r |-> v, g |-> v, b |-> v]]
    /\ startPoint = Point(0, 0) /\ threshold = 0
    /\ visited = {} /\ queue = <<>> /\ regionPixels = <<>>
    /\ iterations = 0 /\ resolved = <<>>
    /\ IdleMS /\ IdlePure /\ IdleSeg /\ IdlePage

\* Lines 267-276: build binaryMask and call marchingSquares.
BinariseMask ==
    /\ pc = "image"
    /\ mask' = {i \in 0..(width * height - 1) : binarise(data[i].r) = 1}
    /\ pc' = "start"
    /\ UNCHANGED <<width, height, msX, msY, msDir, msVisited, contour, steps>>
    /\ UNCHANGED fillVars /\ UNCHANGED pureVars /\ UNCHANGED segVars /\ UNCHANGED pageVars

\* Line 279: return simplifyContour(contour, 2.0).
ExtractOutlineReturn ==
    /\ pc = "done"
    /\ ret' = simplifyContour(contour, 2)
    /\ pc' = "returned"
    /\ UNCHANGED <<width, height, arg>>
    /\ UNCHANGED fillVars /\ UNCHANGED msVars /\ UNCHANGED segVars /\ UNCHANGED pageVars

NextOutline == BinariseMask \/ MSEmpty \/ MSBegin \/ MSStep \/ ExtractOutlineReturn

SpecOutline == InitOutline /\ [][NextOutline]_vars

(***************************************************************************)
(* page.tsx: offsetPolygon                                                 *)
(*                                                                         *)
(* offsetPolygon moves a vertex by amount along the unit vector of the     *)
(* averaged edge normals.  On polygons whose edges are parallel to the     *)
(* axes that vector is an axis direction or a diagonal, and a diagonal     *)
(* move is amount / sqrt(2) in each coordinate.  Coordinates and amounts   *)
(* are therefore kept exactly as numbers a + b * sqrt(2) with integer a    *)
(* and b; amounts have an even a so that amount / sqrt(2) is again such a  *)
(* number.  Polygons with slanted edges are outside this model.            *)
(***************************************************************************)
\* The number a + b * sqrt(2).
Zr(a, b) == [a |-> a, b |-> b]

ZAdd(p, q) == Zr(p.a + q.a, p.b + q.b)
ZSub(p, q) == Zr(p.a - q.a, p.b - q.b)
ZNeg(p) == Zr(-p.a, -p.b)

\* -1, 0 or 1: the sign of a + b * sqrt(2).
ZSign(p) ==
    IF p.a = 0 /\ p.b = 0 THEN 0
    ELSE IF p.a >= 0 /\ p.b >= 0 THEN 1
    ELSE IF p.a <= 0 /\ p.b <= 0 THEN -1
    ELSE IF p.a > 0 THEN (IF p.a * p.a > 2 * p.b * p.b THEN 1 ELSE -1)
    ELSE (IF 2 * p.b * p.b > p.a * p.a THEN 1 ELSE -1)

ZLess(p, q) == ZSign(ZSub(q, p)) = 1

\* p / sqrt(2), for even p.a.
ZDivRoot2(p) == Zr(p.b, p.a \div 2)

\* k * p for k in {-1, 0, 1}.
ZTimesSign(k, p) == IF k = 0 THEN Zr(0, 0) ELSE IF k = 1 THEN p ELSE ZNeg(p)

\* A point with integer coordinates, as a point of the plane above.
LiftPoint(p) == [x |-> Zr(p.x, 0), y |-> Zr(p.y, 0)]
LiftPoints(points) == [i \in 1..Len(points) |-> LiftPoint(points[i])]

\* A variant that moves by the magnitude of the amount, whatever its sign.
displaceAbs(amount, sumx, sumy) ==
    LET mag == IF ZSign(amount) < 0 THEN ZNeg(amount) ELSE amount
        step == IF sumx # 0 /\ sumy # 0 THEN ZDivRoot2(mag) ELSE mag
    IN  [x |-> ZTimesSign(IF sumx > 0 THEN 1 ELSE IF sumx < 0 THEN -1 ELSE 0, step),
         y |-> ZTimesSign(IF sumy > 0 THEN 1 ELSE IF sumy < 0 THEN -1 ELSE 0, step)]

\* Lines 535-545: (nx * scale, ny * scale) with scale = amount / nlen, where
\* (sumx, sumy) = 2 * (nx, ny) is the sum of the two unit edge normals, not
\* (0, 0).  The result has length |amount|.
displace(amount, sumx, sumy) ==
    LET step == IF sumx # 0 /\ sumy # 0 THEN ZDivRoot2(amount) ELSE amount
    IN  [x |-> ZTimesSign(IF sumx > 0 THEN 1 ELSE IF sumx < 0 THEN -1 ELSE 0, step),
         y |-> ZTimesSign(IF sumy > 0 THEN 1 ELSE IF sumy < 0 THEN -1 ELSE 0, step)]

\* Lines 509-548: the vertex that replaces curr.
offsetVertex(prev, curr, next, amount) ==
    LET v1x == ZSign(ZSub(curr.x, prev.x))
        v1y == ZSign(ZSub(curr.y, prev.y))
        v2x == ZSign(ZSub(next.x, curr.x))
        v2y == ZSign(ZSub(next.y, curr.y))
        \* unit normals of axis-parallel edges: (-v1y / len1, v1x / len1)
        sumx == (-v1y) + (-v2y)
        sumy == v1x + v2x
    IN  IF (v1x = 0 /\ v1y = 0) \/ (v2x = 0 /\ v2y = 0) THEN curr
        ELSE IF sumx = 0 /\ sumy = 0 THEN curr
        ELSE LET d == displace(amount, sumx, sumy)
             IN  [x |-> ZAdd(curr.x, d.x), y |-> ZAdd(curr.y, d.y)]

\* Every edge of the closed polygon is parallel to an axis.
AxisParallel(points) ==
    \A i \in 1..Len(points) :
        LET nxt == points[(i % Len(points)) + 1]
        IN  points[i].x = nxt.x \/ points[i].y = nxt.y

offsetPolygon(points, amount) ==
    IF Len(points) < 3 THEN points
    ELSE [i \in 1..Len(points) |->
            offsetVertex(points[((i - 2 + Len(points)) % Len(points)) + 1],
                         points[i],
                         points[(i % Len(points)) + 1],
                         amount)]

(***************************************************************************)
(* SpecOffset: offsetPolygon on the outlines the tracers produce and on    *)
(* axis-aligned squares, followed by the opposite offset of the result.    *)
(***************************************************************************)
\* Solid traced rectangles have sides MinTraced..MaxTraced pixels: from this
\* size on simplifyContour keeps the corners, so every edge is axis-parallel.
MinTraced == 5
MaxTraced == 6

SquareSides == {2, 9, 10, 20}
SquareOrigins == {Point(0, 0), Point(3, 7)}
\* Clicks whose flood fill found no region: floodFillTrace resolves with the box.
BoxSeeds == {Point(60, 60), Point(75, 90)}

\* a + b * sqrt(2) for these (a, b): 2, 4, sqrt(2) and their negatives.
OffsetAmounts == {Zr(2, 0), Zr(4, 0), Zr(0, 1), Zr(-2, 0), Zr(-4, 0), Zr(0, -1)}

\* The square with top-left corner o, listed TL, TR, BR, BL as the tracers
\* list a box, or in the opposite sense.
squareFrom(o, s, sense) ==
    IF sense = "TL-TR-BR-BL"
    THEN << Point(o.x, o.y), Point(o.x + s, o.y),
            Point(o.x + s, o.y + s), Point(o.x, o.y + s) >>
    ELSE << Point(o.x, o.y), Point(o.x, o.y + s),
            Point(o.x + s, o.y + s), Point(o.x + s, o.y) >>

solidMask(w, h) == 0..(w * h - 1)

OffsetInputs ==
    { [kind |-> "square", points |-> squareFrom(o, s, sense)] :
        o \in SquareOrigins, s \in SquareSides,
        sense \in {"TL-TR-BR-BL", "TL-BL-BR-TR"} }
    \cup { [kind |-> "box", points |-> fillResult(<< >>, {}, 0, 0, c.x, c.y)] : c \in BoxSeeds }
    \cup { [kind |-> "contour",
            points |-> extractOutlineFromMask(solidMask(d.w, d.h), d.w, d.h)] :
            d \in [w : MinTraced..MaxTraced, h : MinTraced..MaxTraced] }

InitOffset ==
    /\ pc = "offset"
    /\ \E inp \in OffsetInputs, amount \in OffsetAmounts :
          /\ AxisParallel(inp.points)
          /\ arg = [kind |-> inp.kind, points |-> LiftPoints(inp.points),
                    amount |-> amount]
    /\ ret = << >>
    /\ width = 0 /\ height = 0
    /\ IdleFill /\ IdleMS /\ IdleSeg /\ IdlePage

\* offsetPolygon(points, amount)
OffsetPolygonCall ==
    /\ pc = "offset"
    /\ pc' = "back"
    /\ ret' = << offsetPolygon(arg.points, arg.amount) >>
    /\ UNCHANGED << width, height, arg >>
    /\ UNCHANGED fillVars /\ UNCHANGED msVars /\ UNCHANGED segVars /\ UNCHANGED pageVars

\* offsetPolygon(offsetPolygon(points, amount), -amount)
OffsetPolygonBack ==
    /\ pc = "back"
    /\ pc' = "done"
    /\ ret' = Append(ret, offsetPolygon(ret[1], ZNeg(arg.amount)))
    /\ UNCHANGED << width, height, arg >>
    /\ UNCHANGED fillVars /\ UNCHANGED msVars /\ UNCHANGED segVars /\ UNCHANGED pageVars

NextOffset == OffsetPolygonCall \/ OffsetPolygonBack

SpecOffset == InitOffset /\ [][NextOffset]_vars

(***************************************************************************)
(* SpecSeg: the segmentation service (segmentation.ts) and traceTool.      *)
(*                                                                         *)
(* JavaScript runs one task at a time, so each action is the code that     *)
(* runs between two awaits.  A call is made by the application             *)
(* (initializeSegmentation, segmentAtPoint, segmentWithBox, traceTool,     *)
(* disposeSegmentation), and resumes when what it awaits settles: the      *)
(* promise of a model load, or a request to the provider (transformers.js) *)
(* that succeeds or fails.                                                 *)
(***************************************************************************)
NumCalls == 2
MaxLoads == 2

\* Lengths of the outline extractOutlineFromMask finds in the provider's mask.
OutlineLens == {0, 2, 3}

SegOps == {"segmentAtPoint", "segmentWithBox"}
Ops == {"initializeSegmentation", "traceTool"} \cup SegOps

NoValue == [kind |-> "none", len |-> 0]
NullValue == [kind |-> "null", len |-> 0]

\* A call that has not been made.
idleCall ==
    [op |-> "none", pc |-> "idle", load |-> 0, loadedAtCall |-> FALSE,
     seg |-> "none", outcome |-> "pending", value |-> NoValue]

\* part_002 lines 107-109
isModelLoaded == samModel # 0 /\ samProcessor # 0

\* A variant that never waits for a load in flight.
mustWaitNever(loading, promise) == FALSE

\* part_002 line 47: isModelLoading && modelLoadPromise
mustWait(loading, promise) == loading /\ promise # 0

InFlight == {l \in 1..Len(loads) : loads[l] = "pending"}

settle(call, outcome, value) ==
    [call EXCEPT !.pc = "settled", !.outcome = outcome, !.value = value]

\* The try block of segmentAtPoint / segmentWithBox is entered: the first
\* await is RawImage.fromURL (part_002 lines 128-133, 429-432).
enterTry(call) == [call EXCEPT !.pc = "prepare"]

\* A variant that also returns an outline of exactly 2 points.
segResolvesInclusive(call, v) ==
    IF call.op \in SegOps THEN settle(call, "resolved", v)
    ELSE IF v.kind = "result" /\ v.len >= 2
         THEN settle([call EXCEPT !.seg = "result"], "resolved",
                     [kind |-> "outline", len |-> v.len])
         ELSE [call EXCEPT !.pc = "fill",
                           !.seg = IF v.kind = "null" THEN "null" ELSE "short"]

\* segmentAtPoint / segmentWithBox resolves with v inside the call.  For
\* traceTool, lines 21-24 of toolDetection.ts: the outline is returned when
\* it has more than 2 points, else the flood fill is started (line 31).
segResolves(call, v) ==
    IF call.op \in SegOps THEN settle(call, "resolved", v)
    ELSE IF v.kind = "result" /\ v.len > 2
         THEN settle([call EXCEPT !.seg = "result"], "resolved",
                     [kind |-> "outline", len |-> v.len])
         ELSE [call EXCEPT !.pc = "fill",
                           !.seg = IF v.kind = "null" THEN "null" ELSE "short"]

\* segmentAtPoint / segmentWithBox rejects inside the call.  For traceTool,
\* lines 25-27: the catch goes on to the flood fill.
segRejects(call) ==
    IF call.op \in SegOps THEN settle(call, "rejected", NoValue)
    ELSE [call EXCEPT !.pc = "fill", !.seg = "rejected"]

InitSeg ==
    /\ pc = "seg"
    /\ samModel = 0 /\ samProcessor = 0 /\ isModelLoading = FALSE
    /\ modelLoadPromise = 0 /\ loads = << >>
    /\ calls = [c \in 1..NumCalls |-> idleCall]
    /\ width = 0 /\ height = 0
    /\ IdleFill /\ IdleMS /\ IdlePure /\ IdlePage

\* The application calls op; the code runs up to its first await.  Calls
\* are numbered in the order they are made.
\*   traceTool (toolDetection.ts 19-31): segmentAtPoint when isModelLoaded(),
\*     which then enters its try block at once; else floodFillTrace.
\*   segmentAtPoint / segmentWithBox (part_002 120-122, 421-423):
\*     initializeSegmentation when a global is null, else the try block.
\*   initializeSegmentation (part_002 42-101): true when loaded; waits for
\*     the load in flight; else starts a load.
Call(c, op) ==
    /\ calls[c].pc = "idle"
    /\ \A b \in 1..(c - 1) : calls[b].pc # "idle"
    /\ LET call == [calls[c] EXCEPT !.op = op, !.loadedAtCall = isModelLoaded]
       IN  IF op = "traceTool"
           THEN /\ calls' = [calls EXCEPT ![c] =
                      IF isModelLoaded
                      THEN enterTry([call EXCEPT !.seg = "called"])
                      ELSE [call EXCEPT !.pc = "fill"]]
                /\ UNCHANGED <<isModelLoading, modelLoadPromise, loads>>
           ELSE IF isModelLoaded
           THEN /\ calls' = [calls EXCEPT ![c] =
                      IF op = "initializeSegmentation"
                      THEN settle(call, "resolved", [kind |-> "bool", len |-> 1])
                      ELSE enterTry(call)]
                /\ UNCHANGED <<isModelLoading, modelLoadPromise, loads>>
           ELSE IF mustWait(isModelLoading, modelLoadPromise)
           THEN /\ calls' = [calls EXCEPT ![c] =
                      [call EXCEPT !.pc = "initWait", !.load = modelLoadPromise]]
                /\ UNCHANGED <<isModelLoading, modelLoadPromise, loads>>
           ELSE /\ Len(loads) < MaxLoads
                /\ isModelLoading' = TRUE
                /\ loads' = Append(loads, "pending")
                /\ modelLoadPromise' = Len(loads) + 1
                /\ calls' = [calls EXCEPT ![c] =
                      [call EXCEPT !.pc = "initWait", !.load = Len(loads) + 1]]
    /\ pc' = IF op = "traceTool" THEN pc ELSE "seg"
    /\ UNCHANGED <<width, height, samModel, samProcessor>>
    /\ UNCHANGED fillVars /\ UNCHANGED msVars /\ UNCHANGED pureVars
    /\ UNCHANGED pageVars

\* part_002 lines 62-96: Promise.all of the two downloads settles; the
\* globals are set on success, isModelLoading is reset in either case, and
\* the promise of the load settles.
LoadSettles(l, ok) ==
    /\ l \in InFlight
    /\ loads' = [loads EXCEPT ![l] = IF ok THEN "fulfilled" ELSE "rejected"]
    /\ samModel' = IF ok THEN l ELSE samModel
    /\ samProcessor' = IF ok THEN l ELSE samProcessor
    /\ isModelLoading' = FALSE
    /\ UNCHANGED <<pc, width, height, modelLoadPromise, calls>>
    /\ UNCHANGED fillVars /\ UNCHANGED msVars /\ UNCHANGED pureVars
    /\ UNCHANGED pageVars

\* A call waiting in initializeSegmentation resumes (part_002 lines 48-49,
\* 100-101).  A rejected load rejects initializeSegmentation and, through
\* the await of line 121 / 422, the segment call.  Else the segment call
\* goes on to lines 124-126 / 425-427.
InitResumes(c) ==
    /\ calls[c].pc = "initWait"
    /\ loads[calls[c].load] # "pending"
    /\ calls' = [calls EXCEPT ![c] =
          IF calls[c].op = "initializeSegmentation"
          THEN (IF loads[calls[c].load] = "rejected"
                THEN settle(calls[c], "rejected", NoValue)
                ELSE settle(calls[c], "resolved",
                            [kind |-> "bool",
                             len |-> IF samModel # 0 THEN 1 ELSE 0]))
          ELSE IF loads[calls[c].load] = "rejected" \/ ~isModelLoaded
          THEN segRejects(calls[c])
          ELSE enterTry(calls[c])]
    /\ UNCHANGED <<pc, width, height, samModel, samProcessor, isModelLoading,
                   modelLoadPromise, loads>>
    /\ UNCHANGED fillVars /\ UNCHANGED msVars /\ UNCHANGED pureVars
    /\ UNCHANGED pageVars

\* A request of the try block settles (part_002 lines 128-202, 429-485).
\* A failure, or calling a global that disposeSegmentation has set to null,
\* is caught: the segment call resolves with null.
\*   prepare: RawImage.fromURL, then samProcessor(...) is called
\*   process: samProcessor(...), then samModel(inputs) is called
\*   infer:   samModel(inputs), then the tensors are read
\*   read:    iouScores.data and masks.data, then the result is built
ProviderSettles(c, ok, len) ==
    /\ calls[c].pc \in {"prepare", "process", "infer", "read"}
    /\ calls' = [calls EXCEPT ![c] =
          IF ~ok THEN segResolves(calls[c], NullValue)
          ELSE IF calls[c].pc = "prepare"
          THEN (IF samProcessor = 0 THEN segResolves(calls[c], NullValue)
                ELSE [calls[c] EXCEPT !.pc = "process"])
          ELSE IF calls[c].pc = "process"
          THEN (IF samModel = 0 THEN segResolves(calls[c], NullValue)
                ELSE [calls[c] EXCEPT !.pc = "infer"])
          ELSE IF calls[c].pc = "infer"
          THEN [calls[c] EXCEPT !.pc = "read"]
          ELSE segResolves(calls[c], [kind |-> "result", len |-> len])]
    /\ UNCHANGED <<pc, width, height, samModel, samProcessor, isModelLoading,
                   modelLoadPromise, loads>>
    /\ UNCHANGED fillVars /\ UNCHANGED msVars /\ UNCHANGED pureVars
    /\ UNCHANGED pageVars

\* toolDetection.ts line 31: the promise of floodFillTrace resolves.
FloodFillResolves(c) ==
    /\ calls[c].pc = "fill"
    /\ calls' = [calls EXCEPT ![c] =
          settle(calls[c], "resolved", [kind |-> "floodFill", len |-> 0])]
    /\ UNCHANGED <<pc, width, height, samModel, samProcessor, isModelLoading,
                   modelLoadPromise, loads>>
    /\ UNCHANGED fillVars /\ UNCHANGED msVars /\ UNCHANGED pureVars
    /\ UNCHANGED pageVars

\* part_002 lines 741-747: there is no await in the function, it runs to
\* its end and its promise resolves.  pc tells whether disposeSegmentation
\* is the last of the module's loading and disposing calls ("disposed") or
\* initializeSegmentation, segmentAtPoint or segmentWithBox has been called
\* since ("seg").
disposeSegmentation ==
    /\ pc \in {"seg", "disposed"}
    /\ samModel' = 0
    /\ samProcessor' = 0
    /\ pc' = "disposed"
    /\ UNCHANGED <<width, height, isModelLoading, modelLoadPromise, loads,
                   calls>>
    /\ UNCHANGED fillVars /\ UNCHANGED msVars /\ UNCHANGED pureVars
    /\ UNCHANGED pageVars

NextSeg ==
    \/ \E c \in 1..NumCalls, op \in Ops : Call(c, op)
    \/ \E l \in 1..MaxLoads, ok \in BOOLEAN : LoadSettles(l, ok)
    \/ \E c \in 1..NumCalls : InitResumes(c)
    \/ \E c \in 1..NumCalls, ok \in BOOLEAN, len \in OutlineLens :
          ProviderSettles(c, ok, len)
    \/ \E c \in 1..NumCalls : FloodFillResolves(c)
    \/ disposeSegmentation

SpecSeg == InitSeg /\ [][NextSeg]_vars

(***************************************************************************)
(* SpecScale: calculateScale (paperDetection.ts; the two copies in the     *)
(* repository are the same code).                                          *)
(*                                                                         *)
(* Lengths are kept in tenths of a pixel, paper sizes in tenths of a       *)
(* millimetre and the scale in thousandths of a pixel per millimetre, each *)
(* rounded down: the scale of the code lies in                             *)
(* [calculateScale, calculateScale + 3/2) thousandths.                     *)
(***************************************************************************)
\* The largest r in lo..hi with r * r <= n, for lo * lo <= n.
RECURSIVE isqrtIn(_, _, _)
isqrtIn(n, lo, hi) ==
    IF lo = hi THEN lo
    ELSE LET mid == (lo + hi + 1) \div 2
         IN  IF mid * mid <= n THEN isqrtIn(n, mid, hi)
             ELSE isqrtIn(n, lo, mid - 1)

\* The edges measured are shorter than this many pixels.
MaxEdge == 1000

\* Math.sqrt(Math.pow(q.x - p.x, 2) + Math.pow(q.y - p.y, 2)), in tenths.
edgeLength(p, q) ==
    isqrtIn(100 * ((q.x - p.x) * (q.x - p.x) + (q.y - p.y) * (q.y - p.y)),
            0, 10 * MaxEdge)

\* part_001 lines 9-15, in tenths of a millimetre.
PAPER_SIZES ==
    [LETTER |-> [widthMM |-> 2159, heightMM |-> 2794],
     A4 |-> [widthMM |-> 2100, heightMM |-> 2970],
     LEGAL |-> [widthMM |-> 2159, heightMM |-> 3556],
     A3 |-> [widthMM |-> 2970, heightMM |-> 4200],
     TABLOID |-> [widthMM |-> 2794, heightMM |-> 4318]]

\* A variant that measures the right edge in place of the bottom edge.
calculateScaleRightEdge(corners, paperSize) ==
    LET topWidth == edgeLength(corners[1], corners[2])
        botWidth == edgeLength(corners[2], corners[3])
    IN  (500 * (topWidth + botWidth)) \div paperSize.widthMM

\* corners[0..3] of the code are corners[1..4] here.  avgWidthPx / widthMM
\* is (topWidth + botWidth) / 2 tenths of a pixel over widthMM tenths of a
\* millimetre, that is 500 * (topWidth + botWidth) / widthMM thousandths.
calculateScale(corners, paperSize) ==
    LET topWidth == edgeLength(corners[1], corners[2])
        botWidth == edgeLength(corners[4], corners[3])
    IN  (500 * (topWidth + botWidth)) \div paperSize.widthMM

\* Edge vectors: four of length 850 and three others.
EdgeVectors ==
    {Point(850, 0), Point(510, 680), Point(750, -400), Point(840, 130),
     Point(300, 0), Point(600, 80), Point(3, 4)}
SideVectors == {Point(0, 1100), Point(-40, 600)}
ScaleOrigins == {Point(0, 0), Point(400, 410)}

\* The quadrilateral TL, TR, BR, BL with top edge t, left edge s, bottom edge b.
quadFrom(o, t, s, b) ==
    << o, Point(o.x + t.x, o.y + t.y),
       Point(o.x + s.x + b.x, o.y + s.y + b.y), Point(o.x + s.x, o.y + s.y) >>

InitScale ==
    /\ pc = "call"
    /\ \E o \in ScaleOrigins, t \in EdgeVectors, s \in SideVectors,
          b \in EdgeVectors, size \in DOMAIN PAPER_SIZES :
          arg = [corners |-> quadFrom(o, t, s, b), size |-> size]
    /\ ret = << >>
    /\ width = 0 /\ height = 0
    /\ IdleFill /\ IdleMS /\ IdleSeg /\ IdlePage

\* page.tsx lines 76-79: calculateScale(paperCorners, PAPER_SIZES[paperSize])
CalculateScaleCall ==
    /\ pc = "call"
    /\ pc' = "done"
    /\ ret' = calculateScale(arg.corners, PAPER_SIZES[arg.size])
    /\ UNCHANGED <<width, height, arg>>
    /\ UNCHANGED fillVars /\ UNCHANGED msVars /\ UNCHANGED segVars /\ UNCHANGED pageVars

NextScale == CalculateScaleCall

SpecScale == InitScale /\ [][NextScale]_vars

(***************************************************************************)
(* SpecRegion: findLargestConnectedRegion, extractBoundaryPoints and       *)
(* extractOutline on every mask of a small buffer.                         *)
(***************************************************************************)
RegW == 3
RegH == 3

\* The inner for loop of lines 169-178 (part_001) / 625-633 (part_002):
\* push the neighbours of (cx, cy) that are foreground and not visited.
RECURSIVE pushNeighbours(_, _, _, _, _, _, _, _)
pushNeighbours(d, cx, cy, stack, vis, m, w, h) ==
    IF d > 4 THEN stack
    ELSE LET nx == cx + fillDx[d]
             ny == cy + fillDy[d]
             push == /\ InImage(nx, ny, w, h)
                     /\ (ny * w + nx) \in m
                     /\ (ny * w + nx) \notin vis
         IN  pushNeighbours(d + 1, cx, cy,
                 IF push THEN stack \o <<nx, ny>> ELSE stack, vis, m, w, h)

\* The while loop of the flood fill: st carries stack, visited and region.
\* A pixel is marked when it is taken off the stack; an entry that is
\* already marked is skipped.
RECURSIVE floodFillRegion(_, _, _, _)
floodFillRegion(st, m, w, h) ==
    IF Len(st.stack) = 0 THEN st
    ELSE LET cy == st.stack[Len(st.stack)]
             cx == st.stack[Len(st.stack) - 1]
             popped == SubSeq(st.stack, 1, Len(st.stack) - 2)
             cidx == cy * w + cx
         IN  IF cidx \in st.visited
             THEN floodFillRegion([st EXCEPT !.stack = popped], m, w, h)
             ELSE LET vis2 == st.visited \cup {cidx}
                  IN  floodFillRegion(
                          [stack |-> pushNeighbours(1, cx, cy, popped, vis2,
                                                    m, w, h),
                           visited |-> vis2,
                           region |-> Append(st.region, Point(cx, cy))],
                          m, w, h)

\* A variant that keeps the first region found.
keepFirst(region, largestRegion) ==
    IF Len(largestRegion) = 0 THEN region ELSE largestRegion

\* if (region.length > largestRegion.length) largestRegion = region
keepLargest(region, largestRegion) ==
    IF Len(region) > Len(largestRegion) THEN region ELSE largestRegion

\* The raster scan from pixel index idx on: acc carries visited and
\* largestRegion, and regions, the list of the regions explored so far.
RECURSIVE regionScan(_, _, _, _, _)
regionScan(idx, acc, m, w, h) ==
    IF idx >= w * h THEN acc
    ELSE IF idx \in m /\ idx \notin acc.visited
    THEN LET filled == floodFillRegion(
                           [stack |-> <<idx % w, idx \div w>>,
                            visited |-> acc.visited, region |-> << >>],
                           m, w, h)
         IN  regionScan(idx + 1,
                 [visited |-> filled.visited,
                  largestRegion |-> keepLargest(filled.region,
                                                acc.largestRegion),
                  regions |-> Append(acc.regions, filled.region)],
                 m, w, h)
    ELSE regionScan(idx + 1, acc, m, w, h)

\* findLargestConnectedRegion: null is [isNull |-> TRUE].
findLargestConnectedRegion(m, w, h) ==
    LET acc == regionScan(0, [visited |-> {}, largestRegion |-> << >>,
                              regions |-> << >>], m, w, h)
    IN  [isNull |-> Len(acc.largestRegion) = 0,
         region |-> acc.largestRegion,
         regions |-> acc.regions]

\* part_001 lines 200-201
boundaryDx == <<1, -1, 0, 0, 1, -1, 1, -1>>
boundaryDy == <<0, 0, 1, -1, 1, 1, -1, -1>>

\* A variant that looks at the four axis-aligned neighbours only.
isBoundaryAxisOnly(p, regionSet, w, h) ==
    \E d \in 1..4 :
        \/ ~InImage(p.x + boundaryDx[d], p.y + boundaryDy[d], w, h)
        \/ Point(p.x + boundaryDx[d], p.y + boundaryDy[d]) \notin regionSet

\* part_001 lines 207-219: the test of one point of the region.
isBoundary(p, regionSet, w, h) ==
    \E d \in 1..8 :
        \/ ~InImage(p.x + boundaryDx[d], p.y + boundaryDy[d], w, h)
        \/ Point(p.x + boundaryDx[d], p.y + boundaryDy[d]) \notin regionSet

\* extractBoundaryPoints(region, mask, width, height); mask is not read.
RECURSIVE boundaryFrom(_, _, _, _)
boundaryFrom(i, region, w, h) ==
    IF i > Len(region) THEN << >>
    ELSE LET rest == boundaryFrom(i + 1, region, w, h)
         IN  IF isBoundary(region[i], Range(region), w, h)
             THEN <<region[i]>> \o rest
             ELSE rest

extractBoundaryPoints(region, w, h) == boundaryFrom(1, region, w, h)

InitRegion ==
    /\ pc = "mask"
    /\ width = RegW /\ height = RegH
    /\ mask \in SUBSET (0..(RegW * RegH - 1))
    /\ msX = 0 /\ msY = 0 /\ msDir = 0 /\ msVisited = {}
    /\ contour = << >> /\ steps = 0
    /\ IdleFill /\ IdlePure /\ IdleSeg /\ IdlePage

\* findLargestConnectedRegion(brightMask, width, height)
FindLargestRegionCall ==
    /\ pc = "mask"
    /\ pc' = "region"
    /\ ret' = findLargestConnectedRegion(mask, width, height)
    /\ UNCHANGED <<width, height, arg>>
    /\ UNCHANGED fillVars /\ UNCHANGED msVars /\ UNCHANGED segVars /\ UNCHANGED pageVars

\* part_001 lines 107-115: extractBoundaryPoints(largestRegion, ...) when
\* the region is not null.
ExtractBoundaryCall ==
    /\ pc = "region"
    /\ ~ret.isNull
    /\ pc' = "boundary"
    /\ arg' = ret.region
    /\ ret' = extractBoundaryPoints(ret.region, width, height)
    /\ UNCHANGED <<width, height>>
    /\ UNCHANGED fillVars /\ UNCHANGED msVars /\ UNCHANGED segVars /\ UNCHANGED pageVars

\* extractOutline(visited, width, height) with the mask as visited: the
\* scan of lines 178-203 and the returned list.
ExtractOutlineCall ==
    /\ pc = "mask"
    /\ pc' = "outline"
    /\ ret' = [scan |-> outlineScan(0, mask, width, height),
               outline |-> extractOutline(mask, width, height)]
    /\ UNCHANGED <<width, height, arg>>
    /\ UNCHANGED fillVars /\ UNCHANGED msVars /\ UNCHANGED segVars /\ UNCHANGED pageVars

NextRegion == FindLargestRegionCall \/ ExtractBoundaryCall \/ ExtractOutlineCall

SpecRegion == InitRegion /\ [][NextRegion]_vars

(***************************************************************************)
(* SpecOrder: orderOutlinePoints on lists of boundary pixels in raster     *)
(* order, with gaps of squared length 81, 100 and 121 between them.        *)
(***************************************************************************)
OrderMaxPts == 4
OrderXs == {0, 1, 9, 10, 11}
OrderYs == {0, 6, 8}
OrderPixels == {Point(px, py) : px \in OrderXs, py \in OrderYs}

RasterBefore(p, q) == p.y < q.y \/ (p.y = q.y /\ p.x < q.x)

\* The pixels of S in the order in which the scan of extractOutline finds
\* them: any set of isolated pixels is the boundary of its own mask.
RECURSIVE rasterList(_)
rasterList(S) ==
    IF S = {} THEN << >>
    ELSE LET first == CHOOSE p \in S : \A q \in S \ {p} : RasterBefore(p, q)
         IN  <<first>> \o rasterList(S \ {first})

OrderInputs ==
    {rasterList(S) : S \in {T \in SUBSET OrderPixels :
                               Cardinality(T) <= OrderMaxPts}}

InitOrder ==
    /\ pc = "call"
    /\ width = 0 /\ height = 0
    /\ arg \in OrderInputs
    /\ ret = << >>
    /\ IdleFill /\ IdleMS /\ IdleSeg /\ IdlePage

OrderOutlinePointsCall ==
    /\ pc = "call"
    /\ pc' = "done"
    /\ ret' = orderOutlinePoints(arg)
    /\ UNCHANGED <<width, height, arg>>
    /\ UNCHANGED fillVars /\ UNCHANGED msVars /\ UNCHANGED segVars /\ UNCHANGED pageVars

NextOrder == OrderOutlinePointsCall

SpecOrder == InitOrder /\ [][NextOrder]_vars

(***************************************************************************)
(* SpecSample: the down-sampling step of both convex hulls on lists whose  *)
(* length lies around the multiples of the two limits.                     *)
(***************************************************************************)
SampleSpan == 3
SampleMultiples == 1..3

\* Lengths within SampleSpan of a multiple of either limit.
SampleLens ==
    {n \in 0..(3 * paperSampleLimit + SampleSpan) :
        \E k \in SampleMultiples, T \in {paperSampleLimit, segSampleLimit} :
            Abs(n - k * T) <= SampleSpan}

\* A list of n points told apart by their 0-based index.
indexed(n) == [i \in 1..n |-> i - 1]

sampleLimit(fn) == IF fn = "paper" THEN paperSampleLimit ELSE segSampleLimit

InitSample ==
    /\ pc = "call"
    /\ width = 0 /\ height = 0
    /\ arg \in [fn : {"paper", "segmentation"}, n : SampleLens]
    /\ ret = << >>
    /\ IdleFill /\ IdleMS /\ IdleSeg /\ IdlePage

\* part_001 lines 234-239
SamplePaperCall ==
    /\ pc = "call" /\ arg.fn = "paper"
    /\ pc' = "done"
    /\ ret' = sampleEvery(indexed(arg.n), paperSampleLimit)
    /\ UNCHANGED <<width, height, arg>>
    /\ UNCHANGED fillVars /\ UNCHANGED msVars /\ UNCHANGED segVars /\ UNCHANGED pageVars

\* part_002 lines 645-650
SampleSegCall ==
    /\ pc = "call" /\ arg.fn = "segmentation"
    /\ pc' = "done"
    /\ ret' = sampleEvery(indexed(arg.n), segSampleLimit)
    /\ UNCHANGED <<width, height, arg>>
    /\ UNCHANGED fillVars /\ UNCHANGED msVars /\ UNCHANGED segVars /\ UNCHANGED pageVars

NextSample == SamplePaperCall \/ SampleSegCall

SpecSample == InitSample /\ [][NextSample]_vars

(***************************************************************************)
(* SpecDesigner: the state of the designer page (page.tsx) under clicks    *)
(* on the canvas, the toolbar, the tool list and the export button.        *)
(*                                                                         *)
(* Every handler is a closure of the render in which it was made: it reads *)
(* the values mode, paperCorners and tools had at that render, also after  *)
(* an await.  React commits the state set by a handler before the next     *)
(* event is handled, so a handler that starts reads the current state.  A  *)
(* run of handleCanvasClick is one action up to its first await and one    *)
(* action for each stretch after an await.  An image is loaded.            *)
(***************************************************************************)
MaxClicks == 2
MaxNow == 1

\* Lengths of the corner list a paper detection returns (0 for null).
CornerCounts == {0, 3, 4, 5}

Modes == {"paper", "paper-auto", "tool", "tool-ai"}

\* A run of handleCanvasClick that has not started.
idleClick == [pc |-> "idle", mode |-> "view", tools |-> << >>]

\* The run has ended: its closure is gone, the mode it ran in is kept.
ended(click) == [click EXCEPT !.pc = "done", !.tools = << >>]

Running == {c \in 1..Len(clicks) : clicks[c].pc \notin {"idle", "done"}}

\* tools.filter(t => keep(t)) for the entries from i on.
RECURSIVE filterTools(_, _, _)
filterTools(list, id, i) ==
    IF i > Len(list) THEN << >>
    ELSE IF list[i].id # id
         THEN <<list[i]>> \o filterTools(list, id, i + 1)
         ELSE filterTools(list, id, i + 1)

\* [...tools, { id: Date.now().toString(), points: outline }] with the
\* tools of the closure; by names the run that traced the outline.
addTool(seen, c, time) ==
    Append(seen, [id |-> time, by |-> c])

InitDesigner ==
    /\ pc = "page"
    /\ width = 0 /\ height = 0
    /\ mode = "view" /\ paperCorners = << >> /\ tools = << >>
    /\ clicks = [c \in 1..MaxClicks |-> idleClick]
    /\ deleted = {} /\ exported = "none" /\ now = 0
    /\ IdleFill /\ IdleMS /\ IdlePure /\ IdleSeg

\* The toolbar buttons of lines 310-360.
SetMode(m) ==
    /\ pc = "page"
    /\ mode' = m
    /\ exported' = "none"
    /\ UNCHANGED <<pc, width, height, paperCorners, tools, clicks, deleted,
                   now>>
    /\ UNCHANGED fillVars /\ UNCHANGED msVars /\ UNCHANGED pureVars
    /\ UNCHANGED segVars

\* handleCanvasClick in mode 'paper' (lines 113-117): no await.
ManualCornerClick ==
    /\ pc = "page"
    /\ mode = "paper"
    /\ paperCorners' = IF Len(paperCorners) < 4
                       THEN Append(paperCorners, "click")
                       ELSE paperCorners
    /\ exported' = "none"
    /\ UNCHANGED <<pc, width, height, mode, tools, clicks, deleted, now>>
    /\ UNCHANGED fillVars /\ UNCHANGED msVars /\ UNCHANGED pureVars
    /\ UNCHANGED segVars

\* handleCanvasClick in the other modes, up to its first await: lines
\* 118-132 (detectPaperWithAI when modelLoaded, else detectPaperCV),
\* 148-151 (traceTool), 155-161 (traceToolWithAI).  Runs are numbered in
\* the order they start.
CanvasClick(c, modelLoaded) ==
    /\ pc = "page"
    /\ mode \in {"paper-auto", "tool", "tool-ai"}
    /\ clicks[c].pc = "idle"
    /\ \A b \in 1..(c - 1) : clicks[b].pc # "idle"
    /\ clicks' = [clicks EXCEPT ![c] =
          [pc |-> IF mode = "tool" THEN "traceTool"
                  ELSE IF mode = "tool-ai" THEN "traceToolWithAI"
                  ELSE IF modelLoaded THEN "detectPaperWithAI"
                  ELSE "detectPaperCV",
           mode |-> mode,
           tools |-> tools]]
    /\ exported' = "none"
    /\ UNCHANGED <<pc, width, height, mode, paperCorners, tools, deleted,
                   now>>
    /\ UNCHANGED fillVars /\ UNCHANGED msVars /\ UNCHANGED pureVars
    /\ UNCHANGED segVars

\* Lines 127-147: detectPaperWithAI settles.  A rejection goes to the catch
\* of line 141; fewer than 4 corners go on to detectPaperCV; else the
\* corners are stored when there are exactly 4.
DetectPaperWithAISettles(c, ok, n) ==
    /\ pc = "page"
    /\ clicks[c].pc = "detectPaperWithAI"
    /\ IF ok /\ n < 4
       THEN /\ clicks' = [clicks EXCEPT ![c].pc = "detectPaperCV"]
            /\ UNCHANGED <<mode, paperCorners>>
       ELSE /\ clicks' = [clicks EXCEPT ![c] = ended(clicks[c])]
            /\ mode' = "view"
            /\ paperCorners' = IF ok /\ n = 4 THEN [i \in 1..n |-> "auto"]
                               ELSE paperCorners
    /\ exported' = "none"
    /\ UNCHANGED <<pc, width, height, tools, deleted, now>>
    /\ UNCHANGED fillVars /\ UNCHANGED msVars /\ UNCHANGED pureVars
    /\ UNCHANGED segVars

\* Lines 132-147: detectPaperCV settles.
DetectPaperCVSettles(c, ok, n) ==
    /\ pc = "page"
    /\ clicks[c].pc = "detectPaperCV"
    /\ clicks' = [clicks EXCEPT ![c] = ended(clicks[c])]
    /\ mode' = "view"
    /\ paperCorners' = IF ok /\ n = 4 THEN [i \in 1..n |-> "auto"]
                       ELSE paperCorners
    /\ exported' = "none"
    /\ UNCHANGED <<pc, width, height, tools, deleted, now>>
    /\ UNCHANGED fillVars /\ UNCHANGED msVars /\ UNCHANGED pureVars
    /\ UNCHANGED segVars

\* Lines 151-154 and 173-182: traceTool resolves and the outline is added.
TraceToolResolves(c) ==
    /\ pc = "page"
    /\ clicks[c].pc = "traceTool"
    /\ clicks' = [clicks EXCEPT ![c] = ended(clicks[c])]
    /\ tools' = addTool(clicks[c].tools, c, now)
    /\ mode' = "view"
    /\ exported' = "none"
    /\ UNCHANGED <<pc, width, height, paperCorners, deleted, now>>
    /\ UNCHANGED fillVars /\ UNCHANGED msVars /\ UNCHANGED pureVars
    /\ UNCHANGED segVars

\* Lines 161-182: traceToolWithAI resolves (it catches every error), with
\* an outline of more than 2 points or without; without, traceTool is
\* awaited next.
TraceToolWithAIResolves(c, found) ==
    /\ pc = "page"
    /\ clicks[c].pc = "traceToolWithAI"
    /\ IF found
       THEN /\ clicks' = [clicks EXCEPT ![c] = ended(clicks[c])]
            /\ tools' = addTool(clicks[c].tools, c, now)
            /\ mode' = "view"
       ELSE /\ clicks' = [clicks EXCEPT ![c].pc = "traceTool"]
            /\ UNCHANGED <<tools, mode>>
    /\ exported' = "none"
    /\ UNCHANGED <<pc, width, height, paperCorners, deleted, now>>
    /\ UNCHANGED fillVars /\ UNCHANGED msVars /\ UNCHANGED pureVars
    /\ UNCHANGED segVars

\* Lines 187-190; the button is shown while paperCorners.length > 0.
resetPaper ==
    /\ pc = "page"
    /\ Len(paperCorners) > 0
    /\ paperCorners' = << >>
    /\ mode' = "view"
    /\ exported' = "none"
    /\ UNCHANGED <<pc, width, height, tools, clicks, deleted, now>>
    /\ UNCHANGED fillVars /\ UNCHANGED msVars /\ UNCHANGED pureVars
    /\ UNCHANGED segVars

\* Lines 192-195, called with the id of entry i of the tool list (line 243).
deleteTool(i) ==
    /\ pc = "page"
    /\ i \in 1..Len(tools)
    /\ tools' = filterTools(tools, tools[i].id, 1)
    /\ deleted' = deleted \cup {tools[i].by}
    /\ exported' = "none"
    /\ UNCHANGED <<pc, width, height, mode, paperCorners, clicks, now>>
    /\ UNCHANGED fillVars /\ UNCHANGED msVars /\ UNCHANGED pureVars
    /\ UNCHANGED segVars

\* A variant that lets a list of 3 corners through.
exportOutcomeFrom3(corners, toolCount) ==
    IF corners < 3 THEN "alert"
    ELSE IF toolCount = 0 THEN "alert"
    ELSE "file"

\* Lines 65-73: the two guards of handleExport.
exportOutcome(corners, toolCount) ==
    IF corners < 4 THEN "alert"
    ELSE IF toolCount = 0 THEN "alert"
    ELSE "file"

\* Lines 64-108: an alert and nothing else, or a file made from the scale
\* of the corners and the outlines of the tools.  exported is what the
\* step just taken has put out: "none" after every other step.
handleExport ==
    /\ pc = "page"
    /\ exported' = exportOutcome(Len(paperCorners), Len(tools))
    /\ UNCHANGED <<pc, width, height, mode, paperCorners, tools, clicks,
                   deleted, now>>
    /\ UNCHANGED fillVars /\ UNCHANGED msVars /\ UNCHANGED pureVars
    /\ UNCHANGED segVars

\* A millisecond passes.
Tick ==
    /\ pc = "page"
    /\ now < MaxNow
    /\ now' = now + 1
    /\ exported' = "none"
    /\ UNCHANGED <<pc, width, height, mode, paperCorners, tools, clicks,
                   deleted>>
    /\ UNCHANGED fillVars /\ UNCHANGED msVars /\ UNCHANGED pureVars
    /\ UNCHANGED segVars

NextDesigner ==
    \/ \E m \in Modes : SetMode(m)
    \/ ManualCornerClick
    \/ \E c \in 1..MaxClicks, modelLoaded \in BOOLEAN : CanvasClick(c, modelLoaded)
    \/ \E c \in 1..MaxClicks, ok \in BOOLEAN, n \in CornerCounts :
          DetectPaperWithAISettles(c, ok, n)
    \/ \E c \in 1..MaxClicks, ok \in BOOLEAN, n \in CornerCounts :
          DetectPaperCVSettles(c, ok, n)
    \/ \E c \in 1..MaxClicks : TraceToolResolves(c)
    \/ \E c \in 1..MaxClicks, found \in BOOLEAN : TraceToolWithAIResolves(c, found)
    \/ resetPaper
    \/ \E i \in 1..MaxClicks : deleteTool(i)
    \/ handleExport
    \/ Tick

SpecDesigner == InitDesigner /\ [][NextDesigner]_vars

(***************************************************************************)
(* SpecHull: both convex hulls on short point lists                        *)
(***************************************************************************)
HullGrid == 2
HullMaxLen == 4

\* A small grid, and two far points whose polar angles about (0, HullGrid)
\* differ by less than 0.0001.
HullPoints ==
    {Point(px, py) : px \in 0..HullGrid, py \in 0..HullGrid}
    \cup {Point(100, HullGrid - 1), Point(199, HullGrid - 2)}

InitHull ==
    /\ pc = "call"
    /\ arg \in [fn : {"paper", "segmentation"},
                points : SeqsUpTo(HullPoints, 2, HullMaxLen)]
    /\ ret = <<>>
    /\ width = 0 /\ height = 0
    /\ IdleFill /\ IdleMS /\ IdleSeg /\ IdlePage

\* The list the next call receives: the argument, then the previous result.
hullInput == IF ret = <<>> THEN arg.points ELSE Last(ret)

ConvexHullPaperCall ==
    /\ pc \in {"call", "again"} /\ arg.fn = "paper"
    /\ ret' = Append(ret, convexHullPaper(hullInput))
    /\ pc' = IF pc = "call" THEN "again" ELSE "done"
    /\ UNCHANGED <<width, height, arg>>
    /\ UNCHANGED fillVars /\ UNCHANGED msVars /\ UNCHANGED segVars /\ UNCHANGED pageVars

ConvexHullSegCall ==
    /\ pc \in {"call", "again"} /\ arg.fn = "segmentation"
    /\ ret' = Append(ret, convexHullSeg(hullInput))
    /\ pc' = IF pc = "call" THEN "again" ELSE "done"
    /\ UNCHANGED <<width, height, arg>>
    /\ UNCHANGED fillVars /\ UNCHANGED msVars /\ UNCHANGED segVars /\ UNCHANGED pageVars

NextHull == ConvexHullPaperCall \/ ConvexHullSegCall

SpecHull == InitHull /\ [][NextHull]_vars

(***************************************************************************)
(* SpecDP: the three Douglas-Peucker functions, applied twice              *)
(***************************************************************************)
DPGridX == 2
DPMaxLen == 4
DPRows == {0, 1}
Tolerances == {0, 1}

DPPoints == {Point(px, py) : px \in 0..DPGridX, py \in DPRows}

InitDP ==
    /\ pc = "call"
    /\ arg \in [fn : {"simplifyPolygon", "simplifyContour", "douglasPeucker"},
                points : SeqsUpTo(DPPoints, 0, DPMaxLen),
                tolerance : Tolerances]
    /\ ret = <<>>
    /\ width = 0 /\ height = 0
    /\ IdleFill /\ IdleMS /\ IdleSeg /\ IdlePage

\* The list the next call receives: the argument, then the previous result.
dpInput == IF ret = <<>> THEN arg.points ELSE Last(ret)

SimplifyPolygonCall ==
    /\ pc \in {"call", "again"} /\ arg.fn = "simplifyPolygon"
    /\ ret' = Append(ret, simplifyPolygon(dpInput, arg.tolerance))
    /\ pc' = IF pc = "call" THEN "again" ELSE "done"
    /\ UNCHANGED <<width, height, arg>>
    /\ UNCHANGED fillVars /\ UNCHANGED msVars /\ UNCHANGED segVars /\ UNCHANGED pageVars

SimplifyContourCall ==
    /\ pc \in {"call", "again"} /\ arg.fn = "simplifyContour"
    /\ ret' = Append(ret, simplifyContour(dpInput, arg.tolerance))
    /\ pc' = IF pc = "call" THEN "again" ELSE "done"
    /\ UNCHANGED <<width, height, arg>>
    /\ UNCHANGED fillVars /\ UNCHANGED msVars /\ UNCHANGED segVars /\ UNCHANGED pageVars

DouglasPeuckerCall ==
    /\ pc \in {"call", "again"} /\ arg.fn = "douglasPeucker"
    /\ ret' = Append(ret, douglasPeucker(dpInput, arg.tolerance))
    /\ pc' = IF pc = "call" THEN "again" ELSE "done"
    /\ UNCHANGED <<width, height, arg>>
    /\ UNCHANGED fillVars /\ UNCHANGED msVars /\ UNCHANGED segVars /\ UNCHANGED pageVars

NextDP == SimplifyPolygonCall \/ SimplifyContourCall \/ DouglasPeuckerCall

SpecDP == InitDP /\ [][NextDP]_vars

(***************************************************************************)
(* SpecCorners: reorderCorners, applied twice                              *)
(***************************************************************************)
CornerGrid == 2

CornerPoints == {Point(px, py) : px \in 0..CornerGrid, py \in 0..CornerGrid}

\* Corners of the axis-aligned rectangle at (x0, y0) of size w x h, listed
\* top-left, top-right, bottom-right, bottom-left (y grows downwards).
RectCorners(x0, y0, w, h) ==
    << Point(x0, y0), Point(x0 + w, y0), Point(x0 + w, y0 + h), Point(x0, y0 + h) >>

RectSizes == {<<1, 1>>, <<2, 1>>, <<1, 2>>, <<100, 50>>}

Rectangles ==
    {RectCorners(p.x, p.y, sz[1], sz[2]) : p \in CornerPoints, sz \in RectSizes}

InitCorners ==
    /\ pc = "call"
    /\ arg \in [1..4 -> CornerPoints]
               \cup UNION {SeqPermutations(r) : r \in Rectangles}
    /\ ret = <<>>
    /\ width = 0 /\ height = 0
    /\ IdleFill /\ IdleMS /\ IdleSeg /\ IdlePage

ReorderCornersCall ==
    /\ pc \in {"call", "again"}
    /\ ret' = Append(ret, reorderCorners(IF ret = <<>> THEN arg ELSE Last(ret)))
    /\ pc' = IF pc = "call" THEN "again" ELSE "done"
    /\ UNCHANGED <<width, height, arg>>
    /\ UNCHANGED fillVars /\ UNCHANGED msVars /\ UNCHANGED segVars /\ UNCHANGED pageVars

NextCorners == ReorderCornersCall

SpecCorners == InitCorners /\ [][NextCorners]_vars

(***************************************************************************)
(* SpecRect: detectPaper's last two steps, convexHull of the region and    *)
(* findRectangleCorners of the hull, on lists of 4 points.                 *)
(***************************************************************************)
RectHullGrid == 2

RectHullPoints ==
    {Point(px, py) : px \in 0..RectHullGrid, py \in 0..RectHullGrid}

\* part_002 lines 687-736.  The loop of lines 694-699 is the loop of
\* pickExtremePoints, and lines 705-733 (centre, sort by atan2, rotation to
\* the smallest x + y) are those of reorderCorners, here applied to the
\* list [minX, maxX, minY, maxY] with no removal of repeats.
findRectangleCorners(hull) ==
    IF Len(hull) < 4 THEN hull
    ELSE LET e == extremes(hull, 1,
                      [minX |-> hull[1], maxX |-> hull[1],
                       minY |-> hull[1], maxY |-> hull[1]])
         IN  reorderCorners(<<e.minX, e.maxX, e.minY, e.maxY>>)

InitRect ==
    /\ pc = "region"
    /\ width = 0 /\ height = 0
    /\ arg \in [1..4 -> RectHullPoints]
    /\ ret = << >>
    /\ IdleFill /\ IdleMS /\ IdleSeg /\ IdlePage

\* part_002 line 534: const hull = convexHull(largestRegion)
HullOfRegionCall ==
    /\ pc = "region"
    /\ pc' = "hull"
    /\ ret' = [hull |-> convexHullSeg(arg), corners |-> << >>]
    /\ UNCHANGED <<width, height, arg>>
    /\ UNCHANGED fillVars /\ UNCHANGED msVars /\ UNCHANGED segVars /\ UNCHANGED pageVars

\* part_002 line 537: const corners = findRectangleCorners(hull)
FindRectangleCornersCall ==
    /\ pc = "hull"
    /\ pc' = "corners"
    /\ ret' = [ret EXCEPT !.corners = findRectangleCorners(ret.hull)]
    /\ UNCHANGED <<width, height, arg>>
    /\ UNCHANGED fillVars /\ UNCHANGED msVars /\ UNCHANGED segVars /\ UNCHANGED pageVars

NextRect == HullOfRegionCall \/ FindRectangleCornersCall

SpecRect == InitRect /\ [][NextRect]_vars

(***************************************************************************)
(* SpecQuad: approximateQuadrilateral on hulls, detectPaperWithAI on       *)
(* outlines                                                                *)
(***************************************************************************)
QuadGrid == 2
QuadMaxPts == 5
QuadScale == 100

QuadPoints ==
    {Point(QuadScale * px, QuadScale * py) : px \in 0..QuadGrid, py \in 0..QuadGrid}

\* The points of S in raster order.
RECURSIVE RasterSeq(_)
RasterSeq(S) ==
    IF S = {} THEN <<>>
    ELSE LET p == CHOOSE a \in S :
                    \A b \in S : a.y < b.y \/ (a.y = b.y /\ a.x <= b.x)
         IN  <<p>> \o RasterSeq(S \ {p})

Outlines ==
    {RasterSeq(S) : S \in {T \in SUBSET QuadPoints :
                             Cardinality(T) >= 3 /\ Cardinality(T) <= QuadMaxPts}}

InitQuad ==
    /\ pc = "call"
    /\ \E o \in Outlines :
          \/ arg = [fn |-> "approximateQuadrilateral", points |-> convexHullPaper(o)]
          \/ arg = [fn |-> "detectPaperWithAI", points |-> o]
    /\ ret = <<>>
    /\ width = 0 /\ height = 0
    /\ IdleFill /\ IdleMS /\ IdleSeg /\ IdlePage

ApproximateQuadrilateralCall ==
    /\ pc = "call" /\ arg.fn = "approximateQuadrilateral"
    /\ ret' = approximateQuadrilateral(arg.points)
    /\ pc' = "done"
    /\ UNCHANGED <<width, height, arg>>
    /\ UNCHANGED fillVars /\ UNCHANGED msVars /\ UNCHANGED segVars /\ UNCHANGED pageVars

DetectPaperWithAICall ==
    /\ pc = "call" /\ arg.fn = "detectPaperWithAI"
    /\ ret' = detectPaperWithAI(arg.points)
    /\ pc' = "done"
    /\ UNCHANGED <<width, height, arg>>
    /\ UNCHANGED fillVars /\ UNCHANGED msVars /\ UNCHANGED segVars /\ UNCHANGED pageVars

NextQuad == ApproximateQuadrilateralCall \/ DetectPaperWithAICall

SpecQuad == InitQuad /\ [][NextQuad]_vars

(***************************************************************************)
(* Claims about convexHull                                                 *)
(***************************************************************************)
Between(a, b, p) ==
    /\ cross(a, b, p) = 0
    /\ (IF a.x < b.x THEN a.x ELSE b.x) <= p.x
    /\ p.x <= (IF a.x < b.x THEN b.x ELSE a.x)
    /\ (IF a.y < b.y THEN a.y ELSE b.y) <= p.y
    /\ p.y <= (IF a.y < b.y THEN b.y ELSE a.y)

Next1(i, n) == (i % n) + 1

\* Every point of pts is inside or on the polygon h (a segment or a single
\* point when h has fewer than 3 points).
Encloses(h, pts) ==
    \A i \in 1..Len(pts) :
        IF Len(h) >= 3
        THEN \A k \in 1..Len(h) : cross(h[k], h[Next1(k, Len(h))], pts[i]) >= 0
        ELSE IF Len(h) = 2 THEN Between(h[1], h[2], pts[i])
        ELSE Len(h) = 1 /\ pts[i] = h[1]

\* No clockwise turn along the closed polygon h.
IsConvex(h) ==
    Len(h) < 3 \/
    \A k \in 1..Len(h) :
        cross(h[k], h[Next1(k, Len(h))], h[Next1(Next1(k, Len(h)), Len(h))]) >= 0

hullOf(fn, points) ==
    IF fn = "paper" THEN convexHullPaper(points) ELSE convexHullSeg(points)

\* C7 (as claimed): for 3 or more points either convexHull returns input
\* points that form a convex polygon enclosing every input point; fewer
\* than 3 points are returned unchanged.
C7_HullIsConvexAndEncloses ==
    (pc # "call") =>
        IF Len(arg.points) < 3 THEN ret[1] = arg.points
        ELSE /\ Range(ret[1]) \subseteq Range(arg.points)
             /\ IsConvex(ret[1])
             /\ Encloses(ret[1], arg.points)

\* The list names each of its points once: it lists a point set.
ListsPointSet(points) == Cardinality(Range(points)) = Len(points)

\* C8 (as claimed): for a list of distinct points, the hull of the hull has
\* the same point set, and the hull of every permutation of the input is the
\* same polygon up to rotation.
C8_HullIdempotentOrderInvariant ==
    (pc = "done" /\ ListsPointSet(arg.points)) =>
        /\ Range(ret[2]) = Range(ret[1])
        /\ \A q \in SeqPermutations(arg.points) :
              hullOf(arg.fn, q) \in Rotations(ret[1])

(***************************************************************************)
(* Claims about Douglas-Peucker                                            *)
(***************************************************************************)
\* C9: simplifying an already simplified sequence at the same tolerance
\* returns it point for point, for simplifyPolygon, simplifyContour and
\* douglasPeucker.
C9_SimplifyIdempotent ==
    (pc = "done") => ret[2] = ret[1]

\* A first pass that dropped points and kept more than the two ends, then
\* a second pass.
C9_Witness ==
    /\ pc = "done"
    /\ arg.fn = "simplifyPolygon"
    /\ Len(ret[1]) < Len(arg.points)
    /\ Len(ret[1]) > 2
    /\ ret[2] = ret[1]

(***************************************************************************)
(* Claims about reorderCorners and approximateQuadrilateral                *)
(***************************************************************************)
\* C4 (as claimed): approximateQuadrilateral returns exactly 4 points for
\* every hull of at least 4 points, and detectPaperWithAI returns null or a
\* list of exactly 4 points.
C4_ExactlyFourCorners ==
    (pc = "done") =>
        /\ (arg.fn = "approximateQuadrilateral" /\ Len(arg.points) >= 4)
              => Len(ret) = 4
        /\ arg.fn = "detectPaperWithAI" => (ret = null \/ Len(ret) = 4)

\* C5 (as claimed): reorderCorners(reorderCorners(q)) = reorderCorners(q)
\* for every list q of 4 points.
C5_ReorderIdempotent ==
    (pc = "done") => ret[2] = ret[1]

\* No two of the 4 points lie in the same direction from their centre.
DistinctDirections(q) ==
    \A i, j \in 1..4 :
        i # j => \/ AngleLess(fromCentre(q[i], q), fromCentre(q[j], q))
                 \/ AngleLess(fromCentre(q[j], q), fromCentre(q[i], q))

\* C5 (amended): reorderCorners is idempotent on every list of 4 points no
\* two of which lie in the same direction from their centre.
C5_ReorderIdempotentDistinct ==
    (pc = "done" /\ DistinctDirections(arg)) => ret[2] = ret[1]

\* A list that the first call really reordered.
C5_Witness ==
    /\ pc = "done"
    /\ DistinctDirections(arg)
    /\ ret[1] # arg
    /\ ret[2] = ret[1]

\* q lists the 4 (distinct) corners of the rectangle r in some order.
IsRectangleList(q, r) == Len(q) = 4 /\ Range(q) = Range(r)

\* C6: the corners of an axis-aligned rectangle, in any order, come back as
\* top-left, top-right, bottom-right, bottom-left, the first being the point
\* of minimum x + y.
C6_RectangleOrder ==
    (pc # "call") =>
        \A r \in Rectangles : IsRectangleList(arg, r) => ret[1] = r

\* The rectangle of the spec, given bottom-right first.
C6_Witness ==
    /\ pc # "call"
    /\ arg = << Point(100, 50), Point(0, 50), Point(0, 0), Point(100, 0) >>
    /\ ret[1] = << Point(0, 0), Point(100, 0), Point(100, 50), Point(0, 50) >>

(***************************************************************************)
(* Claims about marchingSquares                                            *)
(***************************************************************************)
\* C10 (as claimed): the walk ends after at most width * height iterations.
C10_WalkWithinCap ==
    steps <= width * height

\* The termination half of C10 alone: every walk ends.
C10_WalkTerminates == <>(pc = "done")

(***************************************************************************)
(* Claims about floodFillTrace                                             *)
(***************************************************************************)
\* The floored seed, computed from the argument alone.
SeedInside ==
    /\ startPoint.x >= 0 /\ startPoint.x < 2 * width
    /\ startPoint.y >= 0 /\ startPoint.y < 2 * height

SeedPixel == Point(startPoint.x \div 2, startPoint.y \div 2)

PixelsOf(w, h) == {Point(px, py) : px \in 0..(w - 1), py \in 0..(h - 1)}

ColorAt(p) == data[p.y * width + p.x]

\* p passes the similarity predicate of the claim.
Similar(p) ==
    \/ p = SeedPixel
    \/ /\ threshold > 0
       /\ ColorDist2(ColorAt(p), ColorAt(SeedPixel)) < threshold * threshold

Adjacent4(p, q) == Abs(p.x - q.x) + Abs(p.y - q.y) = 1

\* Least set holding S and closed under 4-connected steps to similar pixels.
RECURSIVE Reachable(_)
Reachable(S) ==
    LET more == {q \in PixelsOf(width, height) :
                    Similar(q) /\ \E p \in S : Adjacent4(p, q)}
    IN  IF more \subseteq S THEN S ELSE Reachable(S \cup more)

RegionSet == {regionPixels[i] : i \in 1..Len(regionPixels)}

\* C1: for an in-bounds seed, the accepted pixels are exactly the pixels
\* reachable from the seed by 4-connected steps through pixels whose colour
\* distance to the seed colour is strictly below the threshold, each
\* accepted once.
C1_FloodFillIsReachableSet ==
    (pc = "done" /\ SeedInside) =>
        /\ RegionSet = Reachable({SeedPixel})
        /\ Len(regionPixels) = Cardinality(RegionSet)

\* A fill that accepted several pixels, rejected a pixel at distance exactly
\* the threshold, and left out a pixel that touches the region diagonally.
C1_Witness ==
    /\ pc = "done" /\ SeedInside
    /\ Len(regionPixels) > 2
    /\ \E q \in PixelsOf(width, height) \ RegionSet :
          /\ ColorDist2(ColorAt(q), ColorAt(SeedPixel)) = threshold * threshold
          /\ \E p \in RegionSet : Adjacent4(p, q)
    /\ \E q \in PixelsOf(width, height) \ RegionSet :
          /\ Similar(q)
          /\ \E p \in RegionSet : Abs(p.x - q.x) = 1 /\ Abs(p.y - q.y) = 1

\* C2: a seed whose floor lies outside the buffer resolves with the empty
\* list, with no flood fill and no fallback box.
C2_SeedOutsideResolvesEmpty ==
    (~SeedInside) =>
        /\ pc \in {"start", "done"}
        /\ regionPixels = <<>> /\ visited = {} /\ queue = <<>> /\ iterations = 0
        /\ resolved = <<>>

\* Resolved for the seed (-0.5, 0.5): only the floor puts it outside.
C2_Witness ==
    /\ pc = "done"
    /\ startPoint.x = -1 /\ startPoint.y = 1
    /\ resolved = <<>>

\* C3 (as claimed): for an in-bounds seed the resolved outline has at least
\* 3 points.
C3_ResolvedIsClosedPolygon ==
    (pc = "done" /\ SeedInside) => Len(resolved) >= 3

(***************************************************************************)
(* Claims about marchingSquares on solid and empty masks                   *)
(***************************************************************************)
\* Every pixel of the image passes the cut of line 272.
SolidImage ==
    /\ width >= 1 /\ height >= 1
    /\ \A i \in DOMAIN data : data[i].r > 127

\* No pixel of the image passes the cut of line 272.
EmptyImage == \A i \in DOMAIN data : data[i].r <= 127

WalkEnded == pc \in {"done", "returned"}

ContourXs == {contour[i].x : i \in 1..Len(contour)}
ContourYs == {contour[i].y : i \in 1..Len(contour)}

\* The contour touches all four sides of the mask.
FullExtent ==
    /\ 0 \in ContourXs /\ (width - 1) \in ContourXs
    /\ 0 \in ContourYs /\ (height - 1) \in ContourYs
    /\ \A i \in 1..Len(contour) : InImage(contour[i].x, contour[i].y, width, height)

\* A mask one pixel wide or high, 3 or more pixels long.
IsStrip == (width = 1 \/ height = 1) /\ width * height >= 3

\* C11 (as claimed): on every solid mask the walk ends back on the start
\* pixel (0, 0) and the contour spans the full extent of the mask.
C11_SolidWalkClosesFullExtent ==
    (WalkEnded /\ SolidImage) => (msX = 0 /\ msY = 0 /\ FullExtent)

\* C11 (amended): on every solid mask the contour spans the full extent of
\* the mask; the walk ends back on the start pixel unless the mask is a
\* strip of 3 or more pixels, where the cap ends it on the way back.
C11_SolidFullExtentClosedUnlessStrip ==
    (WalkEnded /\ SolidImage) =>
        /\ FullExtent
        /\ contour[1] = Point(0, 0)
        /\ IF IsStrip
           THEN /\ <<msX, msY>> # <<0, 0>>
                /\ Len(contour) = width * height
           ELSE msX = 0 /\ msY = 0

\* A solid mask with an interior: the walk went round and came back.
C11_Witness ==
    /\ pc = "returned" /\ SolidImage
    /\ width >= 3 /\ height >= 3
    /\ Len(contour) = 2 * (width + height) - 4
    /\ msX = 0 /\ msY = 0

\* C12: on a mask with no foreground pixel the walk is never entered,
\* marchingSquares returns the empty contour and extractOutlineFromMask
\* returns the empty outline.
C12_EmptyMaskEmptyOutline ==
    EmptyImage =>
        /\ pc \in {"image", "start", "done", "returned"}
        /\ contour = <<>> /\ steps = 0 /\ msVisited = {}
        /\ (pc = "returned" => ret = <<>>)

\* A 3x2 image just below the cut, after extractOutlineFromMask returned.
C12_Witness ==
    /\ pc = "returned"
    /\ width = 3 /\ height = 2
    /\ \A i \in DOMAIN data : data[i].r = 127
    /\ contour = <<>> /\ ret = <<>>

(***************************************************************************)
(* Claims on offsetPolygon (SpecOffset)                                    *)
(***************************************************************************)
ZMin(S) == CHOOSE m \in S : \A o \in S : ~ZLess(o, m)
ZMax(S) == CHOOSE m \in S : \A o \in S : ~ZLess(m, o)
XsOf(points) == {points[i].x : i \in 1..Len(points)}
YsOf(points) == {points[i].y : i \in 1..Len(points)}

\* p lies strictly inside the bounding rectangle of the outline.
StrictlyInsideBox(p, points) ==
    /\ ZLess(ZMin(XsOf(points)), p.x) /\ ZLess(p.x, ZMax(XsOf(points)))
    /\ ZLess(ZMin(YsOf(points)), p.y) /\ ZLess(p.y, ZMax(YsOf(points)))

\* p lies outside the bounding rectangle of the outline.
OutsideBox(p, points) ==
    \/ ZLess(p.x, ZMin(XsOf(points))) \/ ZLess(ZMax(XsOf(points)), p.x)
    \/ ZLess(p.y, ZMin(YsOf(points))) \/ ZLess(ZMax(YsOf(points)), p.y)

TracedOutline == arg.kind \in {"box", "contour"} /\ Len(arg.points) >= 3
Offsetted == pc \in {"back", "done"}

\* C13: on the outlines the tracers hand to export (the fallback box and the
\* contour of a solid rectangle, which fill their bounding rectangle) a
\* positive amount moves every vertex out of the rectangle, so that the
\* offset outline contains the original, and a negative amount moves every
\* vertex into it.
C13_PositiveExpandsNegativeShrinks ==
    (Offsetted /\ TracedOutline) =>
        \A i \in 1..Len(arg.points) :
            IF ZSign(arg.amount) > 0
            THEN OutsideBox(ret[1][i], arg.points)
            ELSE StrictlyInsideBox(ret[1][i], arg.points)

\* A traced contour that a positive amount has moved into its rectangle.
C13_Witness ==
    /\ Offsetted /\ arg.kind = "contour" /\ Len(arg.points) = 5
    /\ ZSign(arg.amount) > 0
    /\ StrictlyInsideBox(ret[1][1], arg.points)

SquareSide == ZSub(arg.points[3].x, arg.points[1].x)
FourTimes(p) == Zr(4 * p.a, 4 * p.b)

\* C14: offsetting an axis-aligned square of side greater than 4 d by d > 0
\* and the result by -d gives back the same four vertices in the same order.
C14_OffsetRoundTrip ==
    (pc = "done" /\ arg.kind = "square" /\ ZSign(arg.amount) > 0
        /\ ZLess(FourTimes(arg.amount), SquareSide))
        => ret[2] = arg.points

C14_Witness ==
    /\ pc = "done" /\ arg.kind = "square" /\ ZSign(arg.amount) > 0
    /\ ZLess(FourTimes(arg.amount), SquareSide)
    /\ ret[1] # arg.points /\ Len(ret[1]) = 4
    /\ ret[2] = arg.points

\* The side bound matters: a square that the first offset turns inside out
\* does not come back.
C14_SmallSquareLost ==
    /\ pc = "done" /\ arg.kind = "square" /\ ZSign(arg.amount) > 0
    /\ ret[2] # arg.points

(***************************************************************************)
(* Claims on the segmentation service and traceTool (SpecSeg)              *)
(***************************************************************************)
TraceCalls == {c \in 1..NumCalls : calls[c].op = "traceTool"}
SegCalls == {c \in 1..NumCalls : calls[c].op \in SegOps}

\* C15: a traceTool call never rejects; when the model is not loaded at the
\* call it never calls segmentAtPoint; it resolves with the outline of
\* segmentAtPoint only when the model was loaded and that outline has more
\* than 2 points; in every other case (not loaded, segmentAtPoint rejected,
\* returned null or a short outline) it goes on to floodFillTrace and
\* resolves with its result.
C15_TraceToolFallsBack ==
    \A c \in TraceCalls :
        /\ calls[c].outcome # "rejected"
        /\ ~calls[c].loadedAtCall => calls[c].seg = "none"
        /\ calls[c].seg \in {"none", "null", "short", "rejected"}
              => calls[c].pc \in {"fill", "settled"}
        /\ calls[c].pc = "settled" =>
              IF calls[c].loadedAtCall /\ calls[c].seg = "result"
              THEN calls[c].value.kind = "outline" /\ calls[c].value.len > 2
              ELSE calls[c].value.kind = "floodFill"

\* A traceTool call made with the model loaded fell back to the flood fill
\* after segmentAtPoint returned null.
C15_Witness ==
    \E c \in TraceCalls :
        /\ calls[c].pc = "settled" /\ calls[c].seg = "null"
        /\ calls[c].loadedAtCall /\ calls[c].value.kind = "floodFill"

\* A traceTool call returned the outline of the model.
C15_OutlineReturned ==
    \E c \in TraceCalls :
        calls[c].pc = "settled" /\ calls[c].value.kind = "outline"

\* C16: segmentAtPoint and segmentWithBox never reject.
C16_SegmentNeverRejects ==
    \A c \in SegCalls : calls[c].outcome # "rejected"

\* A segment call that was rejected because the model load it waited for
\* failed.
C16_Witness ==
    \E c \in SegCalls :
        /\ calls[c].outcome = "rejected"
        /\ loads[calls[c].load] = "rejected"

\* What the code does keep: a failure inside the try block resolves with
\* null; a segment call rejects only out of the wait for the model.
C16_RejectsOnlyBeforeTry ==
    \A c \in SegCalls :
        calls[c].outcome = "rejected" =>
            /\ ~calls[c].loadedAtCall
            /\ calls[c].load \in 1..Len(loads)
            /\ \/ loads[calls[c].load] = "rejected"
               \/ loads[calls[c].load] = "fulfilled"

\* No step starts a load while a load is in flight or the model is loaded.
NoSecondLoad ==
    (InFlight # {} \/ isModelLoaded) => Len(loads') = Len(loads)

\* A call that starts waiting while a load is in flight waits for that load.
WaitersJoin ==
    \A c \in 1..NumCalls :
        (calls[c].pc = "idle" /\ calls'[c].pc = "initWait" /\ InFlight # {})
            => calls'[c].load \in InFlight

\* C17: at most one model load is in flight at any time; a call made while
\* a load is in flight waits for that load and starts no other; once the model
\* is loaded no load starts until disposeSegmentation has reset the globals.
C17_ModelLoadedOnce ==
    [](Cardinality(InFlight) <= 1) /\ [][NoSecondLoad /\ WaitersJoin]_vars

\* Two calls wait for the same load in flight.
C17_Witness ==
    \E c, d \in 1..NumCalls :
        /\ c # d
        /\ calls[c].pc = "initWait" /\ calls[d].pc = "initWait"
        /\ calls[c].load = calls[d].load
        /\ calls[c].load \in InFlight

(***************************************************************************)
(* Claims on calculateScale (SpecScale)                                    *)
(***************************************************************************)
\* 10 * |q - p| lies in [r, r + 1).
IsLengthOf(r, p, q) ==
    LET sq == 100 * ((q.x - p.x) * (q.x - p.x) + (q.y - p.y) * (q.y - p.y))
    IN  r >= 0 /\ r * r <= sq /\ sq < (r + 1) * (r + 1)

BothEdges850 ==
    /\ IsLengthOf(8500, arg.corners[1], arg.corners[2])
    /\ IsLengthOf(8500, arg.corners[4], arg.corners[3])

\* C18: calculateScale is the mean of the lengths of the top edge (corner 0
\* to corner 1) and the bottom edge (corner 3 to corner 2) divided by the
\* paper width: with top and bot the two lengths in tenths of a pixel,
\* rounded down, and w the width in tenths of a millimetre, it is
\* 500 * (top + bot) / w thousandths, rounded down.  With both edges 850 px
\* and Letter paper the scale is within 0.01 of 3.937.
C18_ScaleIsMeanWidthOverPaperWidth ==
    pc = "done" =>
        /\ \E top \in 0..(10 * MaxEdge) :
              /\ IsLengthOf(top, arg.corners[1], arg.corners[2])
              /\ \E bot \in 0..(10 * MaxEdge) :
                    /\ IsLengthOf(bot, arg.corners[4], arg.corners[3])
                    /\ ret * PAPER_SIZES[arg.size].widthMM <= 500 * (top + bot)
                    /\ 500 * (top + bot)
                          < (ret + 1) * PAPER_SIZES[arg.size].widthMM
        /\ (BothEdges850 /\ arg.size = "LETTER")
              => (ret >= 3937 - 10 /\ ret + 2 <= 3937 + 10)

\* Both edges are 850 px long and not parallel, on Letter paper.
C18_Witness ==
    /\ pc = "done" /\ BothEdges850 /\ arg.size = "LETTER"
    /\ arg.corners[2].y # arg.corners[1].y
    /\ arg.corners[3].y = arg.corners[4].y
    /\ ret = 3937

(***************************************************************************)
(* Claims about the flood-fill loop                                        *)
(***************************************************************************)
\* The pixels on the work list, one per pair of entries.
Pending == [k \in 1..(Len(queue) \div 2) |->
               Point(queue[2 * k - 1], queue[2 * k])]

\* Every pixel was pushed at most once: the pixels pending and the pixels
\* taken are all different, and they are the pixels marked visited.
PushedOnce ==
    /\ \A i, j \in 1..Len(Pending) : i # j => Pending[i] # Pending[j]
    /\ \A i, j \in 1..Len(regionPixels) :
          i # j => regionPixels[i] # regionPixels[j]
    /\ \A i \in 1..Len(Pending) : Pending[i] \notin RegionSet
    /\ visited = {p.y * width + p.x : p \in RegionSet \cup Range(Pending)}

\* C19: every pixel is pushed at most once and is marked visited when
\* pushed, the loop has run at most width * height times, it has ended with an
\* empty work list (the cap has discarded nothing), and it does end.
C19_FillTerminatesNothingDiscarded ==
    /\ [](PushedOnce
          /\ iterations = Len(regionPixels)
          /\ iterations <= width * height
          /\ (pc = "done" => queue = << >>))
    /\ <>(pc = "done")

\* The loop ended at the cap itself: every pixel of the buffer was taken.
C19_Witness ==
    /\ pc = "done" /\ SeedInside
    /\ iterations = width * height /\ iterations > 1
    /\ queue = << >>

\* What floodFillTrace computes for this image, seed and threshold.
StackOrderFill ==
    fillFrom(SeedPixel.x, SeedPixel.y, width, height, data, threshold)

\* C20: whatever pending pixel each iteration takes, the loop ends with the
\* set of accepted pixels (and the visited marks, hence the outline) that
\* the stack order of the code gives for the same image, seed and threshold.
C20_RegionIndependentOfOrder ==
    (pc = "done" /\ SeedInside) =>
        /\ RegionSet = Range(StackOrderFill.regionPixels)
        /\ visited = StackOrderFill.visited
        /\ resolved = fillResult(StackOrderFill.regionPixels,
                                 StackOrderFill.visited, width, height, sx, sy)

\* A fill that took the pixels in an order other than the stack order.
C20_Witness ==
    /\ pc = "done" /\ SeedInside
    /\ Len(regionPixels) > 3
    /\ regionPixels # StackOrderFill.regionPixels
    /\ RegionSet = Range(StackOrderFill.regionPixels)

(***************************************************************************)
(* Claims on boundary extraction and connected regions (SpecRegion)        *)
(***************************************************************************)
PixelOf(idx) == Point(idx % width, idx \div width)
MaskPixels == {PixelOf(idx) : idx \in mask}

\* p has an axis-aligned neighbour that is out of bounds or not in S.
AxisEdge(p, S) ==
    \E q \in {Point(p.x + 1, p.y), Point(p.x - 1, p.y),
              Point(p.x, p.y + 1), Point(p.x, p.y - 1)} :
        ~InImage(q.x, q.y, width, height) \/ q \notin S

\* The same with the four diagonal neighbours added.
AnyEdge(p, S) ==
    \E ex \in {-1, 0, 1}, ey \in {-1, 0, 1} :
        /\ ~(ex = 0 /\ ey = 0)
        /\ \/ ~InImage(p.x + ex, p.y + ey, width, height)
           \/ Point(p.x + ex, p.y + ey) \notin S

NoRepeat(s) == \A i, j \in 1..Len(s) : i # j => s[i] # s[j]

\* C21 (as claimed): both extractions select exactly the members with an
\* axis-aligned neighbour out of bounds or not a member.
C21_BoundaryIsAxisEdgePixels ==
    /\ pc = "outline" =>
          Range(ret.outline) = {p \in MaskPixels : AxisEdge(p, MaskPixels)}
    /\ pc = "boundary" =>
          Range(ret) = {p \in Range(arg) : AxisEdge(p, Range(arg))}

\* C21 (amended): the scan of extractOutline selects exactly the mask pixels
\* with an axis-aligned neighbour out of bounds or not in the mask, each
\* once, and the returned list holds only such pixels (the ordering may
\* stop before all are used); extractBoundaryPoints
\* selects exactly the region pixels that have one of their eight
\* neighbours out of bounds or not in the region, each once.
C21_BoundaryIsEdgePixelsAxisOrDiagonal ==
    /\ pc = "outline" =>
          /\ Range(ret.scan) = {p \in MaskPixels : AxisEdge(p, MaskPixels)}
          /\ NoRepeat(ret.scan)
          /\ Range(ret.outline) \subseteq Range(ret.scan)
          /\ NoRepeat(ret.outline)
    /\ pc = "boundary" =>
          /\ Range(ret) = {p \in Range(arg) : AnyEdge(p, Range(arg))}
          /\ NoRepeat(ret)

\* A region whose centre pixel has its four axis-aligned neighbours in the
\* region and is a boundary point all the same; the outline of the same
\* mask leaves the centre out.
C21_Witness ==
    /\ pc = "boundary"
    /\ Point(1, 1) \in Range(ret)
    /\ ~AxisEdge(Point(1, 1), Range(arg))
    /\ Point(1, 1) \notin Range(extractOutline(mask, width, height))

(***************************************************************************)
(* Claims on orderOutlinePoints (SpecOrder)                                *)
(***************************************************************************)
Prefix(s, k) == {s[i] : i \in 1..k}

\* r starts with the first point and each further point is a nearest one
\* among the points not used before it.
GreedyNearest(points, r) ==
    /\ Len(r) >= 1
    /\ r[1] = points[1]
    /\ Range(r) \subseteq Range(points)
    /\ \A k \in 1..(Len(r) - 1) :
          \A q \in Range(points) \ Prefix(r, k) :
              Dist2(r[k + 1], r[k]) <= Dist2(q, r[k])

\* The least squared distance from the last point of r to an unused point.
NearestLeft(points, r) ==
    CHOOSE d \in {Dist2(q, Last(r)) : q \in Range(points) \ Range(r)} :
        \A q \in Range(points) \ Range(r) : d <= Dist2(q, Last(r))

RECURSIVE ComponentOf(_)
ComponentOf(S) ==
    LET more == {q \in MaskPixels : \E p \in S : Adjacent4(p, q)}
    IN  IF more \subseteq S THEN S ELSE ComponentOf(S \cup more)

\* C23: findLargestConnectedRegion returns null exactly when the mask has no
\* foreground pixel; otherwise it returns a complete 4-connected component
\* of the foreground, without repeats, that no other component exceeds in
\* pixel count.  The flood fills start at foreground pixels only, every
\* foreground pixel lies in exactly one explored region, and every explored
\* region is a complete component.
C23_LargestRegionIsMaximalComponent ==
    pc = "region" =>
        /\ ret.isNull <=> mask = {}
        /\ \A i \in 1..Len(ret.regions) :
              /\ Len(ret.regions[i]) >= 1
              /\ NoRepeat(ret.regions[i])
              /\ Range(ret.regions[i]) = ComponentOf({ret.regions[i][1]})
        /\ \A p \in MaskPixels :
              Cardinality({i \in 1..Len(ret.regions) :
                              p \in Range(ret.regions[i])}) = 1
        /\ \A i \in 1..Len(ret.regions) :
              Range(ret.regions[i]) \subseteq MaskPixels
        /\ ~ret.isNull =>
              /\ \E i \in 1..Len(ret.regions) : ret.region = ret.regions[i]
              /\ \A i \in 1..Len(ret.regions) :
                    Len(ret.region) >= Len(ret.regions[i])

\* Three components, and the one returned is not the first one explored.
C23_Witness ==
    /\ pc = "region"
    /\ Len(ret.regions) = 3
    /\ Len(ret.region) > Len(ret.regions[1])
    /\ Len(ret.region) >= 3

(***************************************************************************)
(* Claims on the down-sampling of the hull input (SpecSample)              *)
(***************************************************************************)
SampleStep == arg.n \div sampleLimit(arg.fn)

\* The scan receives the points at indices 0, step, 2*step, ... in order.
AtStride ==
    /\ \A i \in 1..Len(ret) : ret[i] = (i - 1) * SampleStep
    /\ Len(ret) * SampleStep >= arg.n
    /\ (Len(ret) - 1) * SampleStep < arg.n

\* C24 (as claimed): every input longer than the limit is scanned on
\* strictly fewer points, those at indices 0, step, 2*step, ... .
C24_SampledBelowInputLength ==
    (pc = "done" /\ arg.n > sampleLimit(arg.fn)) =>
        /\ Len(ret) < arg.n
        /\ AtStride

\* What the filter does: an input longer than the limit is cut to the
\* points at the stride indices, which are all of them while the length is
\* below twice the limit, and fewer than twice the limit in any case; an
\* input up to the limit is scanned whole.
C24_SampledAtStrideBelowTwiceLimit ==
    pc = "done" =>
        /\ arg.n > sampleLimit(arg.fn) =>
              /\ AtStride
              /\ Len(ret) < 2 * sampleLimit(arg.fn)
              /\ Len(ret) < arg.n <=> arg.n >= 2 * sampleLimit(arg.fn)
        /\ arg.n <= sampleLimit(arg.fn) => ret = indexed(arg.n)

\* An input one point longer than the limit is scanned whole.
C24_Witness ==
    /\ pc = "done"
    /\ arg.n = sampleLimit(arg.fn) + 1
    /\ Len(ret) = arg.n

(***************************************************************************)
(* Claims on findRectangleCorners (SpecRect)                               *)
(***************************************************************************)
\* h lists the vertices of a convex quadrilateral: no repeat, and the same
\* strict turn at every vertex.
ConvexQuad(h) ==
    /\ Len(h) = 4
    /\ NoRepeat(h)
    /\ \/ \A i \in 1..4 :
             Cross2(Minus(h[(i % 4) + 1], h[i]),
                    Minus(h[((i + 1) % 4) + 1], h[(i % 4) + 1])) > 0
       \/ \A i \in 1..4 :
             Cross2(Minus(h[(i % 4) + 1], h[i]),
                    Minus(h[((i + 1) % 4) + 1], h[(i % 4) + 1])) < 0

\* The axis-aligned rectangles whose corners h lists.
RectsOf(h) ==
    {r \in {RectCorners(p.x, p.y, w, d) :
               p \in RectHullPoints, w \in 1..RectHullGrid, d \in 1..RectHullGrid} :
        Len(h) = 4 /\ NoRepeat(h) /\ Range(h) = Range(r)}

\* C25 (as claimed): for a convex hull of 4 points findRectangleCorners
\* returns 4 pairwise distinct points of the hull, and for the hull of an
\* axis-aligned rectangle its corners in the order top-left, top-right,
\* bottom-right, bottom-left.
C25_FourDistinctCorners ==
    (pc = "corners" /\ ConvexQuad(ret.hull)) =>
        /\ Len(ret.corners) = 4
        /\ NoRepeat(ret.corners)
        /\ Range(ret.corners) \subseteq Range(ret.hull)
        /\ \A r \in RectsOf(ret.hull) : ret.corners = r

\* What the code returns for a rectangle: whichever corner the hull lists
\* first is both the first extreme in x and the first extreme in y on its
\* side, so it is returned twice and one corner is missing.
C25_RectangleLosesACorner ==
    (pc = "corners" /\ RectsOf(ret.hull) # {}) =>
        /\ Len(ret.corners) = 4
        /\ Range(ret.corners) \subseteq Range(ret.hull)
        /\ Cardinality(Range(ret.corners)) = 3
        /\ \E i, j \in 1..4 : i # j /\ ret.corners[i] = ret.hull[1]
                                    /\ ret.corners[j] = ret.hull[1]

\* The hull of the rectangle (0,0)-(2,1), and a corner returned twice.
C25_Witness ==
    /\ pc = "corners"
    /\ RectCorners(0, 0, 2, 1) \in RectsOf(ret.hull)
    /\ ~NoRepeat(ret.corners)

(***************************************************************************)
(* Claims on what Douglas-Peucker keeps and removes (SpecDP)               *)
(***************************************************************************)
\* The points of s at the positions K, in order.
RECURSIVE PickAt(_, _, _)
PickAt(s, K, i) ==
    IF i > Len(s) THEN << >>
    ELSE IF i \in K THEN <<s[i]>> \o PickAt(s, K, i + 1)
         ELSE PickAt(s, K, i + 1)

\* p lies within tol of the line through a and b (of the point a when a
\* and b coincide): cross^2 <= tol^2 * |b - a|^2.
WithinTolerance(p, a, b, tol) ==
    IF a = b THEN Dist2(p, a) <= tol * tol
    ELSE Cross2(Minus(p, a), Minus(b, a)) * Cross2(Minus(p, a), Minus(b, a))
            <= tol * tol * Dist2(a, b)

\* r keeps the positions K of s: the first and the last position are kept
\* and every position left out is within tol of the line through the
\* nearest kept points before and after it.
KeepsWithin(s, r, K, tol) ==
    /\ 1 \in K /\ Len(s) \in K
    /\ r = PickAt(s, K, 1)
    /\ \A i \in (1..Len(s)) \ K :
          LET before == CHOOSE j \in K : j < i /\ \A k \in K : k < i => k <= j
              after == CHOOSE j \in K : j > i /\ \A k \in K : k > i => j <= k
          IN  WithinTolerance(s[i], s[before], s[after], tol)

\* C26: for 3 points or more the result of simplifyPolygon, simplifyContour
\* and douglasPeucker is the input restricted to a set of positions that
\* holds the first and the last one, and every point left out lies within
\* the tolerance of the line through the two kept points around it; an
\* input of 2 points or fewer is returned unchanged.
C26_SimplifiedIsSubsequenceWithinTolerance ==
    pc \in {"again", "done"} =>
        /\ Len(arg.points) <= 2 => ret[1] = arg.points
        /\ Len(arg.points) >= 3 =>
              \E K \in SUBSET (1..Len(arg.points)) :
                  KeepsWithin(arg.points, ret[1], K, arg.tolerance)

\* A pass at tolerance 1 that removed a point off the line and kept another.
C26_Witness ==
    /\ pc = "again"
    /\ arg.fn = "douglasPeucker"
    /\ arg.tolerance = 1
    /\ Len(arg.points) = 4
    /\ Len(ret[1]) = 3
    /\ \E i \in 2..3 :
          /\ arg.points[i] \notin Range(ret[1])
          /\ ~WithinTolerance(arg.points[i], arg.points[1], arg.points[4], 0)

(***************************************************************************)
(* Claims on the contour of marchingSquares (SpecMS)                       *)
(***************************************************************************)
\* C27: in every state of the walk and at its end each contour point is a
\* foreground pixel of the mask, no pixel is in the contour twice, the
\* first contour point is the first foreground pixel in raster order, and
\* the contour holds no more points than the mask has foreground pixels.
C27_ContourIsForegroundWithoutRepeats ==
    /\ \A i \in 1..Len(contour) :
          /\ InImage(contour[i].x, contour[i].y, width, height)
          /\ (contour[i].y * width + contour[i].x) \in mask
    /\ NoRepeat(contour)
    /\ Len(contour) >= 1 =>
          /\ (contour[1].y * width + contour[1].x) \in mask
          /\ \A j \in mask : contour[1].y * width + contour[1].x <= j
    /\ Len(contour) <= Cardinality(mask)
    /\ Range(contour) = msVisited
    /\ (pc = "done" /\ mask # {}) => Len(contour) >= 1

\* A finished walk that came back over pixels it had recorded and left a
\* foreground pixel out of the contour.
C27_Witness ==
    /\ pc = "done"
    /\ Len(contour) >= 4
    /\ steps > Len(contour)
    /\ Len(contour) < Cardinality(mask)

(***************************************************************************)
(* Claims on disposeSegmentation (SpecSeg)                                 *)
(***************************************************************************)
\* C28 (as claimed): while disposeSegmentation is the last call made among
\* initializeSegmentation, segmentAtPoint, segmentWithBox and itself,
\* isModelLoaded() is false; and the model and the processor are both set
\* or both null.
C28_DisposalFinalUntilNextLoad ==
    /\ pc = "disposed" => ~isModelLoaded
    /\ (samModel = 0) <=> (samProcessor = 0)

\* The half of C28 on the two globals alone.
C28_ModelAndProcessorTogether ==
    (samModel = 0) <=> (samProcessor = 0)

\* The model becomes loaded only in the step in which a load that was in
\* flight is fulfilled, whatever was called in between.
C28_LoadedOnlyWhenLoadSettles ==
    [][(~isModelLoaded /\ isModelLoaded')
          => \E l \in InFlight : loads'[l] = "fulfilled"]_vars

\* disposeSegmentation has resolved while a load was in flight, nothing was
\* called since, and the model is loaded.
C28_Witness ==
    /\ pc = "disposed"
    /\ isModelLoaded
    /\ Len(loads) = 1
    /\ loads[1] = "fulfilled"
    /\ calls[2].pc = "idle"

(***************************************************************************)
(* Claims on the designer page (SpecDesigner)                              *)
(***************************************************************************)
\* The runs of handleCanvasClick that traced a tool and have ended.
TracesDone ==
    {c \in 1..Len(clicks) :
        clicks[c].pc = "done" /\ clicks[c].mode \in {"tool", "tool-ai"}}

EntriesOf(c) == {i \in 1..Len(tools) : tools[i].by = c}

\* C29 (as claimed): when no handler is running, the tool list holds exactly
\* one entry for each completed trace that was not deleted and no entry for
\* a deleted one.
C29_NoToolLostOrResurrected ==
    Running = {} =>
        /\ \A c \in TracesDone \ deleted : Cardinality(EntriesOf(c)) = 1
        /\ \A c \in deleted : EntriesOf(c) = {}

\* What holds of the tool list in every state: each entry is the tool of a
\* completed trace, and no trace has two entries.
C29_ToolsAreCompletedTracesOnce ==
    /\ \A i \in 1..Len(tools) : tools[i].by \in TracesDone
    /\ \A c \in 1..Len(clicks) : Cardinality(EntriesOf(c)) <= 1

\* Two traces have ended, nothing was deleted and nothing is running, and
\* the tool list holds one tool only.
C29_Witness ==
    /\ pc = "page"
    /\ Running = {}
    /\ TracesDone = {1, 2}
    /\ deleted = {}
    /\ Len(tools) = 1

\* The second half of C29 on its own: the list holds no deleted tool.
C29_DeletedToolNeverBack ==
    \A c \in deleted : EntriesOf(c) = {}

\* A step changes paperCorners only by appending one clicked corner, by
\* emptying the list, or by storing the 4 corners of a detection.
CornersStep ==
    \/ paperCorners' = paperCorners
    \/ paperCorners' = Append(paperCorners, "click")
    \/ paperCorners' = << >>
    \/ paperCorners' = <<"auto", "auto", "auto", "auto">>

\* A run of handleExport leaves the corners and the tools as they are.
ExportStep ==
    exported' # "none" => UNCHANGED <<paperCorners, tools>>

\* C30: paperCorners holds between 0 and 4 points in every state; a
\* detection stores its corners only when there are exactly 4; handleExport
\* makes a file only when paperCorners holds exactly 4 points and there is
\* at least one tool, and changes neither list.
C30_CornersAtMostFourExportGuarded ==
    /\ [](/\ Len(paperCorners) \in 0..4
          /\ exported = "file" => (Len(paperCorners) = 4 /\ Len(tools) >= 1)
          /\ exported = "alert" => (Len(paperCorners) < 4 \/ Len(tools) = 0))
    /\ [][CornersStep /\ ExportStep]_vars

\* An export that ends in the alert: a detection has stored 4 corners, and
\* the tool list is empty.
C30_Witness ==
    /\ pc = "page"
    /\ exported = "alert"
    /\ paperCorners = <<"auto", "auto", "auto", "auto">>
    /\ tools = << >>

\* A file was exported from clicked corners.
C30_FileExported ==
    exported = "file" /\ paperCorners = <<"click", "click", "click", "click">>

====
